---- MODULE Spec2Model ----
(***************************************************************************)
(* A model of batchscan's incremental scan reconciliation:                 *)
(* BatchScanner.scan_directory / scan_recursive (core/batch_scanner.py)    *)
(* over the sqlite catalog written through core/repository.py.             *)
(*                                                                         *)
(* Every repository call is one committed transaction                      *)
(* (RepositoryBase.transaction), so every repository write is one step of  *)
(* the model.  Between two steps the process may be interrupted (Crash),   *)
(* and a write may raise (a sqlite error; the transaction is rolled back)  *)
(* as long as the budget of injected faults lasts; an interruption counts  *)
(* against the same budget.                                                *)
(*                                                                         *)
(* The web application (web/app.py) runs the same reconciliation in        *)
(* background threads.  A thread's work on one file is three steps of the  *)
(* model, between which the other threads and requests may act: inference  *)
(* with the write of the photo row and the two deletes (lines 161-191),    *)
(* the inserts of metadata and tags (193-205), and the thumbnail           *)
(* (208-209).  The repository is also called from outside the scans        *)
(* (StoreSpec), on a catalog an earlier scan has left.                     *)
(***************************************************************************)
EXTENDS Integers, Sequences, FiniteSets, TLC

(* ------------------------------ bounds --------------------------------- *)

\* Number of top-level scan calls (CLI invocations) in one behaviour.
MaxRuns == 2

\* Number of injected environment events (a sqlite write that raises, a file
\* read that raises, an interruption of the process, a progress update that
\* fails) in one behaviour.
MaxFaults == 1

\* Number of /api/scan/start requests the web application accepts in one
\* behaviour.
MaxStarts == 2

\* Number of repository calls made from outside the scans in one behaviour.
MaxCalls == 1

\* The longest list of photo ids a /api/photos/delete request carries.
MaxIds == 2

\* The rows of the photos table and the page size of /api/folder/<id>/photos
\* in the behaviours that page through a folder (per_page is 100 in
\* web/app.py; the pages of the model are short so that a few rows fill
\* several).
MaxPhotos == 4

PerPage == 2

(* --------------------------- the file system --------------------------- *)

\* File names are sequences of characters, so that lower() and endswith()
\* are computed and not assumed.
NameA == <<"a", ".", "j", "p", "g">>
NameB == <<"b", ".", "J", "P", "G">>
NameC == <<"c", ".", "p", "n", "g">>
NameN == <<"n", ".", "t", "x", "t">>
NameS == <<"s">>
NameE == <<"e", ".", "g", "i", "f">>
NameT == <<"t">>
NameU == <<"u">>

DirRoot == "d1"
DirSub == "d1/s"
DirSide == "d1/t"
DirDeep == "d1/s/u"

FileEntry(name, content, mtime) ==
    [name |-> name, kind |-> "file", content |-> content, mtime |-> mtime, path |-> ""]

DirEntry(name, path) ==
    [name |-> name, kind |-> "dir", content |-> "", mtime |-> "t1", path |-> path]

\* The directory trees a behaviour may run on; each maps a directory to what
\* os.listdir returns for it.  In the first, d1 holds two byte-identical
\* images and a text file.  In the second, d1 holds two images of the same
\* size and different bytes (a large photo and a small drawing) and a text
\* file.  In the third, d1 holds one
\* image and two subdirectories, of which one is empty and the other holds
\* a copy of the image and an empty subdirectory.
DiskCopies ==
    (DirRoot :> { FileEntry(NameA, "X", "t1"), FileEntry(NameB, "X", "t2"),
                  FileEntry(NameN, "Z", "t1") })

DiskMixed ==
    (DirRoot :> { FileEntry(NameA, "L", "t1"), FileEntry(NameC, "Y", "t1"),
                  FileEntry(NameN, "Z", "t1") })

DiskTree ==
    (DirRoot :> { FileEntry(NameA, "U", "t1"), DirEntry(NameS, DirSub),
                  DirEntry(NameT, DirSide) })
    @@ (DirSub :> { FileEntry(NameE, "U", "t2"), DirEntry(NameU, DirDeep) })
    @@ (DirSide :> {})
    @@ (DirDeep :> {})

Disks == {DiskCopies, DiskMixed, DiskTree}

\* The directory tree on disk; no step changes it.
VARIABLE disk

\* The paths a scan may be asked for: the two directories, a path that does
\* not exist and the path of a regular file.
Paths == {DirRoot, DirSub, "nodir", "d1/n.txt"}

\* os.path.exists(p) and os.path.isdir(p)
IsDir(p) == p \in DOMAIN disk

\* os.path.join(directory_path, filename)
JoinPath(dir, name) == <<dir, name>>

Entry(dir, name) == CHOOSE e \in disk[dir] : e.name = name

\* os.path.exists(fullpath) for the path of a file.
FileExists(fullpath) ==
    /\ fullpath[1] \in DOMAIN disk
    /\ \E e \in disk[fullpath[1]] : e.name = fullpath[2]

\* The disk after os.remove(fullpath).
Removed(fullpath) ==
    [disk EXCEPT ![fullpath[1]] = { e \in @ : e.name # fullpath[2] }]

\* The bytes Image.open(fullpath) reads, "missing" when there is no file.
Content(fullpath) ==
    IF FileExists(fullpath) THEN Entry(fullpath[1], fullpath[2]).content ELSE "missing"

\* os.path.getsize and hashlib.md5 over the bytes: the images have the same
\* size, and different contents have different digests.
FileSize(content) == IF content = "Z" THEN "s2" ELSE "s1"

Md5(content) ==
    CASE content = "X" -> "h1" [] content = "Y" -> "h2" [] content = "Z" -> "h3"
      [] content = "L" -> "h4" [] OTHER -> "h5"

(* ------------------------------ strings -------------------------------- *)

\* str.lower() on one character
LowerChar(c) ==
    CASE c = "J" -> "j" [] c = "P" -> "p" [] c = "G" -> "g" [] OTHER -> c

Lower(s) == [i \in 1..Len(s) |-> LowerChar(s[i])]

\* str.endswith(suffix)
EndsWith(s, suffix) ==
    /\ Len(suffix) <= Len(s)
    /\ SubSeq(s, Len(s) - Len(suffix) + 1, Len(s)) = suffix

ImageExtensions ==
    { <<".", "j", "p", "g">>, <<".", "j", "p", "e", "g">>,
      <<".", "p", "n", "g">>, <<".", "g", "i", "f">> }

\* A filter that compares the name as it is spelled.
IsImageNameAsSpelled(name) == \E ext \in ImageExtensions : EndsWith(name, ext)

\* filename.lower().endswith(('.jpg', '.jpeg', '.png', '.gif'))
IsImageName(name) == \E ext \in ImageExtensions : EndsWith(Lower(name), ext)

\* The image files scan_directory collects (its image_files list).  A
\* directory entry is not told from a file: only the name is looked at.
ImageFiles(dir) == { e.name : e \in { x \in disk[dir] : IsImageName(x.name) } }

\* str.split(","): the pieces between the commas, empty pieces included.
RECURSIVE SplitComma(_)
SplitComma(s) ==
    IF \A i \in 1..Len(s) : s[i] # ","
    THEN <<s>>
    ELSE LET i == CHOOSE k \in 1..Len(s) : s[k] = "," /\ \A j \in 1..(k - 1) : s[j] # ","
         IN <<SubSeq(s, 1, i - 1)>> \o SplitComma(SubSeq(s, i + 1, Len(s)))

\* str.strip(): leading and trailing blanks removed.
RECURSIVE Strip(_)
Strip(s) ==
    IF s = <<>> THEN s
    ELSE IF Head(s) = " " THEN Strip(Tail(s))
    ELSE IF s[Len(s)] = " " THEN Strip(SubSeq(s, 1, Len(s) - 1))
    ELSE s

\* The tags scan_directory derives from the q2 answer, in insertion order.
RECURSIVE StripAll(_)
StripAll(parts) ==
    IF parts = <<>> THEN <<>>
    ELSE LET tag == Strip(Head(parts))
         IN (IF tag # <<>> THEN <<tag>> ELSE <<>>) \o StripAll(Tail(parts))

KeywordTags(q2) == StripAll(SplitComma(q2))

(* ----------------------------- inference ------------------------------- *)

\* The question keys of PhotoScanner.questions_to_ask.
QuestionKeys == <<"q1", "q2">>

\* The answers the model may give (generation samples: the same image may
\* get either).  The second keyword list has a leading blank, empty pieces
\* and a keyword given twice.
Answers ==
    { [q1 |-> <<"x">>, q2 |-> <<"k", ",", " ", "l">>],
      [q1 |-> <<"y">>, q2 |-> <<" ", "m", ",", ",", "m">>] }

\* The decimal text of the integers the photos table stores (a column
\* without a value reads "None").
Numeral(n) ==
    CASE n = 1 -> "1" [] n = 2 -> "2" [] n = 5 -> "5"
      [] n = 100 -> "100" [] n = 480 -> "480" [] n = 540 -> "540"
      [] n = 640 -> "640" [] n = 720 -> "720"
      [] n = 2020 -> "2020" [] n = 2024 -> "2024" [] n = 2025 -> "2025"
      [] OTHER -> "other"

\* An EXIF DateTimeOriginal value "YYYY:MM:DD HH:MM:SS", as its fields.
DateText(y, m, d) == <<y, ":", m, ":", d, " ", 10, ":", 0, ":", 0>>

\* Image.open(path): the class, the dimensions and the EXIF tag 36867 of
\* the bytes.  X is a small JPEG with a capture date, L a large one, U a
\* small JPEG whose capture date is all zeros, Y a PNG with an alpha
\* channel and without EXIF data.
OpenImage(content) ==
    CASE content = "X" ->
           [class |-> "JpegImageFile", mode |-> "RGB", width |-> 640, height |-> 480,
            exif |-> <<DateText(2020, 5, 17)>>]
      [] content = "L" ->
           [class |-> "JpegImageFile", mode |-> "RGB", width |-> 1440, height |-> 1080,
            exif |-> <<DateText(2020, 5, 17)>>]
      [] content = "U" ->
           [class |-> "JpegImageFile", mode |-> "RGB", width |-> 640, height |-> 480,
            exif |-> <<DateText(0, 0, 0)>>]
      [] OTHER ->
           [class |-> "PngImageFile", mode |-> "RGBA", width |-> 100, height |-> 100,
            exif |-> <<>>]

\* Image.resize: a new object of the base class Image.Image.
Resize(img, width, height) ==
    [class |-> "Image", mode |-> img.mode, width |-> width, height |-> height,
     exif |-> img.exif]

\* PhotoScanner._resize_image_if_needed (lines 94-99)
ResizeImageIfNeeded(img, max_size) ==
    LET img1 == IF img.width > max_size
                THEN Resize(img, max_size, (max_size * img.height) \div img.width)
                ELSE img
    IN IF img1.height > max_size
       THEN Resize(img1, (max_size * img1.width) \div img1.height, max_size)
       ELSE img1

\* PhotoScanner.load_image of a local file (lines 59-63)
LoadImage(content) == ResizeImageIfNeeded(OpenImage(content), 720)

\* image._getexif(): the plugin classes have the method; Image.Image has
\* not, and the call raises AttributeError.
HasGetexif(img) == img.class # "Image"

\* datetime.strptime(date_str, "%Y:%m:%d %H:%M:%S") returns for the text;
\* it raises ValueError otherwise.
StrptimeParses(text) ==
    /\ Len(text) = 11
    /\ text[2] = ":" /\ text[4] = ":" /\ text[6] = " " /\ text[8] = ":" /\ text[10] = ":"
    /\ text[1] \in 1..9999 /\ text[3] \in 1..12 /\ text[5] \in 1..31
    /\ text[7] \in 0..23 /\ text[9] \in 0..59 /\ text[11] \in 0..61

\* dt.month and dt.year of the parsed text.
Strptime(text) == <<text[3], text[1]>>

\* Lines 242-255: month and year of the capture date, or nothing when there
\* is no tag or an exception is swallowed.
ExifDate(img) ==
    IF ~HasGetexif(img) THEN <<>>
    ELSE IF img.exif = <<>> THEN <<>>
    ELSE IF ~StrptimeParses(img.exif[1]) THEN <<>>
    ELSE Strptime(img.exif[1])

\* Lines 258-263: month and year of os.path.getmtime.
MtimeDate(mtime) == IF mtime = "t1" THEN <<1, 2024>> ELSE <<2, 2025>>

\* PhotoScanner.get_image_metadata(file_path, image), with the image
\* process_single_image got from load_image (lines 118-124).
ImageMetadata(dir, name) ==
    LET e == Entry(dir, name)
        image == LoadImage(e.content)
        date == IF ExifDate(image) # <<>> THEN ExifDate(image) ELSE MtimeDate(e.mtime)
    IN << <<"filesize", FileSize(e.content)>>, <<"md5", Md5(e.content)>>,
          <<"width", Numeral(image.width)>>, <<"height", Numeral(image.height)>>,
          <<"month", Numeral(date[1])>>, <<"year", Numeral(date[2])>> >>

\* What process_single_image returns: the image metadata, then one answer
\* per question, in the dict's insertion order.
ImageResults(dir, name, ans) ==
    ImageMetadata(dir, name) \o << <<"q1", ans.q1>>, <<"q2", ans.q2>> >>

\* dict.get(key): None when the key is absent.
DictGet(items, key) ==
    IF \E i \in 1..Len(items) : items[i][1] = key
    THEN items[CHOOSE i \in 1..Len(items) : items[i][1] = key][2]
    ELSE "None"

HasKey(items, key) == \E i \in 1..Len(items) : items[i][1] = key

\* The keys stored as columns of the photos table and not as metadata.
PhotoColumns == {"filesize", "md5", "width", "height", "month", "year"}

IsAnswerItem(item) == item[1] \notin PhotoColumns

\* The (key, value) pairs scan_directory inserts as metadata.
MetadataItems(results) == SelectSeq(results, IsAnswerItem)

(* ----------------------------- the catalog ----------------------------- *)

VARIABLES
    folders,        \* table folders, in rowid order: [id, path]
    folderSeq,      \* last AUTOINCREMENT id of folders
    photos,         \* table photos, in rowid order
    photoSeq,       \* last AUTOINCREMENT id of photos
    metadata,       \* table metadata, in rowid order: [photo_id, key, value]
    tags,           \* table tags, in rowid order: [photo_id, tag]
    model_loaded,   \* BatchScanner.model_loaded
    pc,             \* where the running call stands ("idle": no call)
    sd,             \* the locals of the running scan_directory
    walk,           \* the running scan_recursive: its directories left and results
    cur,            \* what the latest scan_directory call did and returned
    prev,           \* the same for the scan_directory call before it
    ret,            \* what the latest top-level call returned
    runs,           \* top-level calls made so far
    faults,         \* injected errors and interruptions left
    thumbnails,     \* table photo_preview, in rowid order: [photo_id, thumbnail]
    scan_running,   \* web/app.py: the global scan_running
    scan_folder,    \* web/app.py: the global scan_folder
    scanner,        \* web/app.py: the global scanner ("None", or with or without its model)
    tasks,          \* the threads start_scan has made, each a background_scan_task
    api,            \* repository calls made from outside the scans, and their outcome
    delete_photos   \* the locals of the running /api/photos/delete handler

catalog == <<folders, folderSeq, photos, photoSeq, metadata, tags>>

\* The state of the web application.
web == <<thumbnails, scan_running, scan_folder, scanner, tasks, api, delete_photos>>


vars == <<disk, folders, folderSeq, photos, photoSeq, metadata, tags, model_loaded,
          pc, sd, walk, cur, prev, ret, runs, faults,
          thumbnails, scan_running, scan_folder, scanner, tasks, api, delete_photos>>

\* FolderRepository.add_folder: the id of the row with this path, a new row
\* when there is none (path is UNIQUE).
FolderRows(path) == SelectSeq(folders, LAMBDA r : r.path = path)

AddFolderId(path) ==
    IF FolderRows(path) # <<>> THEN FolderRows(path)[1].id ELSE folderSeq + 1

\* An add_folder that inserts without regard to the rows there are.
AddFolderTableAlwaysInserts(path) == Append(folders, [id |-> folderSeq + 1, path |-> path])

AddFolderTable(path) ==
    IF FolderRows(path) # <<>> THEN folders
    ELSE Append(folders, [id |-> folderSeq + 1, path |-> path])

AddFolderSeq(path) == IF FolderRows(path) # <<>> THEN folderSeq ELSE folderSeq + 1

\* PhotoRepository.get_photos_by_folder, in rowid order.
PhotosByFolder(folderid) == SelectSeq(photos, LAMBDA r : r.folderid = folderid)

\* existing_photo_map.get(filename): the dict comprehension keeps the last
\* fetched row of a filename; <<>> is None.
ExistingPhoto(folderid, filename) ==
    LET rows == SelectSeq(PhotosByFolder(folderid), LAMBDA r : r.filename = filename)
    IN IF rows = <<>> THEN <<>> ELSE <<rows[Len(rows)]>>

\* A lookup that sees the photos of the scanned folder only.
PhotoByFilesizeAndMd5InFolder(filesize, md5) ==
    LET rows == SelectSeq(photos, LAMBDA r :
                    /\ r.filesize = filesize /\ r.md5 = md5 /\ r.is_completed = 1
                    /\ r.folderid = AddFolderId(sd.directory_path))
    IN IF rows = <<>> THEN <<>> ELSE <<rows[1]>>

\* A lookup that does not look at the completion flag.
PhotoByFilesizeAndMd5AnyState(filesize, md5) ==
    LET rows == SelectSeq(photos, LAMBDA r : r.filesize = filesize /\ r.md5 = md5)
    IN IF rows = <<>> THEN <<>> ELSE <<rows[1]>>

\* PhotoRepository.get_photo_by_filesize_and_md5: the first complete row with
\* this size and digest (LIMIT 1 of a rowid-order scan); <<>> is None.
PhotoByFilesizeAndMd5(filesize, md5) ==
    LET rows == SelectSeq(photos, LAMBDA r :
                    r.filesize = filesize /\ r.md5 = md5 /\ r.is_completed = 1)
    IN IF rows = <<>> THEN <<>> ELSE <<rows[1]>>

\* PhotoRepository.add_photo: the new row; its id is photoSeq + 1.
NewPhotoRow(folderid, dir, filename, completed, cols) ==
    [id |-> photoSeq + 1, folderid |-> folderid, fullpath |-> JoinPath(dir, filename),
     filename |-> filename, is_completed |-> completed,
     filesize |-> cols.filesize, md5 |-> cols.md5, width |-> cols.width,
     height |-> cols.height, month |-> cols.month, year |-> cols.year]

\* The defaults of add_photo's column arguments.
NoColumns ==
    [filesize |-> "None", md5 |-> "None", width |-> "None",
     height |-> "None", month |-> "None", year |-> "None"]

\* PhotoRepository.update_photo(photo_id, **kwargs): the named columns of
\* the row with this id are overwritten.
UpdatedPhotos(photo_id, kwargs) ==
    [i \in 1..Len(photos) |->
        IF photos[i].id = photo_id
        THEN [f \in DOMAIN photos[i] |->
                 IF f \in DOMAIN kwargs THEN kwargs[f] ELSE photos[i][f]]
        ELSE photos[i]]

\* MetaDataRepository.get_photo_metadata / delete_photo_metadata
PhotoMetadata(photo_id) == SelectSeq(metadata, LAMBDA r : r.photo_id = photo_id)

WithoutPhotoMetadata(photo_id) == SelectSeq(metadata, LAMBDA r : r.photo_id # photo_id)

\* TagRepository.get_photo_tags / delete_photo_tags
PhotoTags(photo_id) == SelectSeq(tags, LAMBDA r : r.photo_id = photo_id)

WithoutPhotoTags(photo_id) == SelectSeq(tags, LAMBDA r : r.photo_id # photo_id)

\* PhotoPreviewRepository.create_thumbnail: the JPEG bytes of the reduced
\* image; an exception (an image with an alpha channel cannot be saved as
\* JPEG) is printed and None is returned.
CreateThumbnail(content) ==
    IF content = "missing" \/ OpenImage(content).mode = "RGBA" THEN "None" ELSE "jpeg"

\* An add_thumbnail on a table without the UNIQUE constraint.
AddThumbnailNeverRefused(table, photo_id) == FALSE

\* PhotoPreviewRepository.add_thumbnail: photo_id is UNIQUE in
\* photo_preview, so the INSERT raises IntegrityError when the photo has a
\* row.
AddThumbnailRefused(table, photo_id) ==
    \E i \in 1..Len(table) : table[i].photo_id = photo_id

AddThumbnailTable(table, photo_id, content) ==
    Append(table, [photo_id |-> photo_id, thumbnail |-> CreateThumbnail(content)])

\* PhotoPreviewRepository.delete_thumbnail
WithoutThumbnail(table, photo_id) == SelectSeq(table, LAMBDA r : r.photo_id # photo_id)

PhotoById(photo_id) == CHOOSE r \in {photos[i] : i \in 1..Len(photos)} : r.id = photo_id

(* ------------------------- scan_directory state ------------------------ *)

\* The locals of scan_directory when no call runs.
NoSd ==
    [directory_path |-> "", folder_id |-> 0,
     total_images |-> 0, processed_images |-> 0, skipped_images |-> 0,
     duplicates_found |-> 0,
     unprocessed |-> {}, filename |-> <<>>, existing_photo |-> <<>>,
     file_size |-> "None", md5_value |-> "None", duplicate_photo |-> <<>>,
     photo_id |-> <<>>, image_results |-> <<>>, items |-> <<>>, labels |-> <<>>]

\* The dict scan_directory returns.
Summary(l) ==
    [kind |-> "summary", total_images |-> l.total_images, processed |-> l.processed_images,
     skipped |-> l.skipped_images, duplicates |-> l.duplicates_found]

ErrorResult ==
    [kind |-> "error", total_images |-> 0, processed |-> 0, skipped |-> 0, duplicates |-> 0]

NoResult ==
    [kind |-> "none", total_images |-> 0, processed |-> 0, skipped |-> 0, duplicates |-> 0]

\* The record of one scan_directory call: its directory, how it ended
\* (status), what it returned, what happened to each image file (outcome),
\* what process_single_image returned for it (image_results, <<>> when it
\* was not called or raised), and whether a read or a write raised during
\* the call (faulted); complete_before holds the image files that had a
\* photo marked complete when the call began.
NoCall ==
    [dir |-> "", status |-> "none", result |-> NoResult, outcome |-> <<>>,
     image_results |-> <<>>, faulted |-> FALSE, complete_before |-> {}]

\* What is remembered of the scan_directory call before the current one.
Ended(call) == [dir |-> call.dir, status |-> call.status, result |-> call.result]

\* scan_recursive's state: the directories os.walk has yet to yield and the
\* results dict.
NoWalk ==
    [active |-> FALSE, todo |-> <<>>, directories_scanned |-> 0,
     total_images |-> 0, processed |-> 0, skipped |-> 0]

\* What a top-level call (scan_directory or scan_recursive) returned: the
\* error dict, the summary, or nothing when it raised or was interrupted.
\* For scan_recursive, visited lists the directories scan_directory was called
\* for, in the order of the calls, and dir_results the dicts it returned.
NoRet ==
    [call |-> "", path |-> "", kind |-> "none", directories_scanned |-> 0,
     total_images |-> 0, processed |-> 0, skipped |-> 0, duplicates |-> 0,
     visited |-> <<>>, dir_results |-> <<>>]

Called(call, path) == [NoRet EXCEPT !.call = call, !.path = path, !.kind = "running"]

\* The threads of the web application, and a thread start_scan has not made
\* yet.  todo is the rest of unprocessed_files, current the file the loop
\* body is at; stop_requested tells that /api/scan/stop was accepted while
\* the task was running, emit_failed that a progress update of it raised;
\* photo_id and image_results are the locals of the loop body.
Threads == 1..MaxStarts

NoTask ==
    [pc |-> "none", folder_path |-> "", folder_id |-> 0, todo |-> <<>>, current |-> <<>>,
     photo_id |-> <<>>, image_results |-> <<>>,
     stop_requested |-> FALSE, emit_failed |-> FALSE]

\* No repository call was made from outside the scans.
NoCalls == [calls |-> 0, name |-> "", refused |-> FALSE, response |-> <<>>]

\* The handler of /api/photos/delete when no request runs.  photo_ids is the
\* rest of the list, photo_id the id the loop body is at; deleted, failed,
\* unremoved and unknown remember which ids were counted in deleted_count,
\* in failed_count, failed at os.remove, and were found in no row.
NoRequest ==
    [pc |-> "none", photo_ids |-> <<>>, delete_from_disk |-> FALSE, photo_id |-> 0,
     deleted_count |-> 0, failed_count |-> 0, total |-> 0,
     deleted |-> {}, failed |-> {}, unremoved |-> {}, unknown |-> {}]

Init ==
    /\ disk \in Disks
    /\ folders = <<>> /\ folderSeq = 0
    /\ photos = <<>> /\ photoSeq = 0
    /\ metadata = <<>> /\ tags = <<>>
    /\ model_loaded = FALSE
    /\ pc = "idle" /\ sd = NoSd /\ walk = NoWalk
    /\ cur = NoCall /\ prev = Ended(NoCall) /\ ret = NoRet
    /\ runs = 0
    /\ faults = MaxFaults
    /\ thumbnails = <<>>
    /\ scan_running = FALSE /\ scan_folder = "None" /\ scanner = "None"
    /\ api = NoCalls
    /\ delete_photos = NoRequest
    /\ tasks = [t \in Threads |-> NoTask]

\* A write that commits, and a write that raises (and is rolled back).
Commits == faults' = faults

Raises == faults > 0 /\ faults' = faults - 1

\* A partition that reads the completion flag the wrong way round.
IsKnownCompleteInverted(folderid, filename) ==
    /\ ExistingPhoto(folderid, filename) # <<>>
    /\ ExistingPhoto(folderid, filename)[1].is_completed = 0

\* The files scan_directory puts in processed_files: the catalog has a row
\* for the filename, marked complete.
IsKnownComplete(folderid, filename) ==
    /\ ExistingPhoto(folderid, filename) # <<>>
    /\ ExistingPhoto(folderid, filename)[1].is_completed = 1

ExistingId(folderid, filename) ==
    IF ExistingPhoto(folderid, filename) = <<>> THEN <<>>
    ELSE <<ExistingPhoto(folderid, filename)[1].id>>

\* The image files of a directory whose photo, the latest row with the
\* file's path, is marked complete.
CompleteBefore(path) ==
    { n \in ImageFiles(path) :
        \E i \in 1..Len(photos) :
            /\ photos[i].fullpath = JoinPath(path, n) /\ photos[i].is_completed = 1
            /\ \A j \in (i + 1)..Len(photos) : photos[j].fullpath # JoinPath(path, n) }

\* scan_directory propagates an exception: the call ends, and with it the
\* scan_recursive that made it.
RaiseOut(name, what) ==
    /\ cur' = [cur EXCEPT !.status = "raised", !.outcome[name] = what, !.faulted = TRUE]
    /\ sd' = NoSd /\ walk' = NoWalk /\ pc' = "idle"
    /\ ret' = [ret EXCEPT !.kind = "raised"]

(* ------------------------- scan_directory steps ------------------------ *)

\* A validation that comes after add_folder: the error is returned, and the
\* folder row is there.
ScanDirectoryAddsFolderFirst(path) ==
    /\ pc = "idle" /\ runs < MaxRuns /\ ~IsDir(path)
    /\ runs' = runs + 1
    /\ ret' = [Called("scan_directory", path) EXCEPT !.kind = "error"]
    /\ folders' = AddFolderTable(path) /\ folderSeq' = AddFolderSeq(path)
    /\ UNCHANGED <<web, disk, photos, photoSeq, metadata, tags, model_loaded, pc, sd, walk,
                   cur, prev, faults>>

\* scan_directory's early return with: _ensure_model_loaded()
\* called before the directory check, as scan_recursive does.
ScanDirectoryInvalidLoads(path) ==
    /\ pc = "idle" /\ runs < MaxRuns /\ ~IsDir(path)
    /\ runs' = runs + 1
    /\ model_loaded' = TRUE
    /\ ret' = [Called("scan_directory", path) EXCEPT !.kind = "error"]
    /\ UNCHANGED <<web, disk, catalog, pc, sd, walk, cur, prev, faults>>

\* Lines 89-91: the path is no directory.
ScanDirectoryInvalid(path) ==
    /\ pc = "idle" /\ runs < MaxRuns /\ ~IsDir(path)
    /\ runs' = runs + 1
    /\ ret' = [Called("scan_directory", path) EXCEPT !.kind = "error"]
    /\ UNCHANGED <<web, disk, catalog, model_loaded, pc, sd, walk, cur, prev, faults>>

\* Lines 93-140 for a directory: the model is loaded, the folder row is made
\* sure of, the images are collected and parted in known-complete and
\* unprocessed files.  add_folder is the one write.
EnterScanDirectory(path, nextWalk, nextRet) ==
    /\ IsDir(path)
    /\ model_loaded' = TRUE
    /\ prev' = Ended(cur)
    /\ \/ /\ Commits
          /\ folders' = AddFolderTable(path)
          /\ folderSeq' = AddFolderSeq(path)
          /\ LET fid == AddFolderId(path)
                 images == ImageFiles(path)
                 done == {n \in images : IsKnownComplete(fid, n)}
             IN /\ sd' = [NoSd EXCEPT
                            !.directory_path = path, !.folder_id = fid,
                            !.total_images = Cardinality(images),
                            !.skipped_images = Cardinality(done),
                            !.unprocessed = {[filename |-> n, existing_photo |-> ExistingId(fid, n)] :
                                                n \in images \ done}]
                /\ cur' = [dir |-> path, status |-> "running", result |-> NoResult,
                           outcome |-> [n \in images |-> IF n \in done THEN "skipped" ELSE "pending"],
                           image_results |-> [n \in images |-> <<>>], faulted |-> FALSE,
                           complete_before |-> CompleteBefore(path)]
          /\ pc' = "loop"
          /\ walk' = nextWalk /\ ret' = nextRet
       \/ /\ Raises
          /\ cur' = [dir |-> path, status |-> "raised", result |-> NoResult,
                     outcome |-> [n \in ImageFiles(path) |-> "pending"],
                     image_results |-> [n \in ImageFiles(path) |-> <<>>], faulted |-> TRUE,
                     complete_before |-> CompleteBefore(path)]
          /\ sd' = NoSd /\ walk' = NoWalk /\ pc' = "idle"
          /\ ret' = [nextRet EXCEPT !.kind = "raised"]
          /\ UNCHANGED <<folders, folderSeq>>
    /\ UNCHANGED <<web, disk, photos, photoSeq, metadata, tags>>

\* Lines 292-298 with a sum that leaves the skipped files out.
AggregatedWithoutSkipped(results, dir_result) ==
    [results EXCEPT
       !.directories_scanned = @ + 1,
       !.total_images = @ + dir_result.total_images,
       !.processed = @ + dir_result.processed]

\* Lines 292-298 of scan_recursive: the results dict after dir_result is
\* added to it.
Aggregated(results, dir_result) ==
    [results EXCEPT
       !.directories_scanned = @ + 1,
       !.total_images = @ + dir_result.total_images,
       !.processed = @ + dir_result.processed,
       !.skipped = @ + dir_result.skipped]

\* main(): scan_directory(directory)
CliScanDirectory(path) ==
    /\ pc = "idle" /\ runs < MaxRuns
    /\ runs' = runs + 1
    /\ EnterScanDirectory(path, walk, Called("scan_directory", path))

\* Line 262: the loop is over and the summary is returned; inside
\* scan_recursive the summary is added to the results (lines 292-298).
ReturnSummary ==
    /\ pc = "loop" /\ sd.unprocessed = {}
    /\ cur' = [cur EXCEPT !.status = "returned", !.result = Summary(sd)]
    /\ sd' = NoSd
    /\ IF walk.active
       THEN /\ pc' = "walk"
            /\ walk' = Aggregated(walk, Summary(sd))
       ELSE pc' = "idle" /\ walk' = walk
    /\ ret' = IF walk.active THEN [ret EXCEPT !.dir_results = Append(@, Summary(sd))]
              ELSE [ret EXCEPT !.kind = "summary", !.total_images = sd.total_images,
                               !.processed = sd.processed_images,
                               !.skipped = sd.skipped_images,
                               !.duplicates = sd.duplicates_found]
    /\ UNCHANGED <<web, disk, catalog, model_loaded, prev, runs, faults>>

\* The locals of the loop body for the next unprocessed file u, after lines
\* 148-159: its size, its digest and the complete photo that has both.
Picked(u) ==
    LET e == Entry(sd.directory_path, u.filename)
    IN [sd EXCEPT
          !.unprocessed = @ \ {u},
          !.filename = u.filename, !.existing_photo = u.existing_photo,
          !.file_size = FileSize(e.content), !.md5_value = Md5(e.content),
          !.duplicate_photo = PhotoByFilesizeAndMd5(FileSize(e.content), Md5(e.content)),
          !.photo_id = <<>>, !.image_results = <<>>, !.items = <<>>, !.labels = <<>>]

\* Line 161: duplicate_photo and duplicate_photo['id'] != (existing_photo['id']
\* if existing_photo else None)
IsDuplicate(l) ==
    /\ l.duplicate_photo # <<>>
    /\ <<l.duplicate_photo[1].id>> # l.existing_photo

\* Lines 148-156: reading the file's size or bytes raises; nothing catches it.
FingerprintRaises(u) ==
    /\ pc = "loop" /\ u \in sd.unprocessed
    /\ Raises
    /\ RaiseOut(u.filename, "io_failed")
    /\ UNCHANGED <<web, disk, catalog, model_loaded, prev, runs>>

\* Lines 159-162: the file is a duplicate of a complete photo.
BeginDuplicate(u) ==
    /\ pc = "loop" /\ u \in sd.unprocessed
    /\ IsDuplicate(Picked(u))
    /\ sd' = Picked(u)
    /\ pc' = "dup_photo"
    /\ UNCHANGED <<web, disk, catalog, model_loaded, walk, cur, prev, ret, runs, faults>>

\* Line 202: process_single_image raises.
InferenceRaises(u) ==
    /\ pc = "loop" /\ u \in sd.unprocessed
    /\ ~IsDuplicate(Picked(u))
    /\ sd' = Picked(u)
    /\ cur' = [cur EXCEPT !.outcome[u.filename] = "infer_failed"]
    /\ pc' = "handler"
    /\ UNCHANGED <<web, disk, catalog, model_loaded, walk, prev, ret, runs, faults>>

\* Line 202: process_single_image returns its results.
InferenceReturns(u, ans) ==
    /\ pc = "loop" /\ u \in sd.unprocessed
    /\ ~IsDuplicate(Picked(u))
    /\ sd' = [Picked(u) EXCEPT
                !.image_results = ImageResults(sd.directory_path, u.filename, ans)]
    /\ cur' = [cur EXCEPT !.outcome[u.filename] = "inferred",
                          !.image_results[u.filename] =
                              ImageResults(sd.directory_path, u.filename, ans)]
    /\ pc' = "inf_photo"
    /\ UNCHANGED <<web, disk, catalog, model_loaded, walk, prev, ret, runs, faults>>

\* The columns both paths pass to update_photo together with is_completed=1.
CompleteColumns(cols) ==
    [is_completed |-> 1, filesize |-> cols.filesize, md5 |-> cols.md5,
     width |-> cols.width, height |-> cols.height,
     month |-> cols.month, year |-> cols.year]

\* A duplicate write that passes the fingerprint and leaves the other
\* column arguments at their defaults.
DuplicateColumnsFingerprintOnly(l) ==
    [filesize |-> l.file_size, md5 |-> l.md5_value,
     width |-> "None", height |-> "None", month |-> "None", year |-> "None"]

\* Lines 169-188: size and digest as computed, the other columns from the
\* duplicate.
DuplicateColumns(l) ==
    [filesize |-> l.file_size, md5 |-> l.md5_value,
     width |-> l.duplicate_photo[1].width, height |-> l.duplicate_photo[1].height,
     month |-> l.duplicate_photo[1].month, year |-> l.duplicate_photo[1].year]

\* Lines 205-212: image_metadata
ResultColumns(l) ==
    [filesize |-> DictGet(l.image_results, "filesize"), md5 |-> DictGet(l.image_results, "md5"),
     width |-> DictGet(l.image_results, "width"), height |-> DictGet(l.image_results, "height"),
     month |-> DictGet(l.image_results, "month"), year |-> DictGet(l.image_results, "year")]

\* A write that adds a row whether or not the file has one.
WritePhotoAlwaysAdds(completed, cols) ==
    /\ photos' = Append(photos,
                     NewPhotoRow(sd.folder_id, sd.directory_path, sd.filename, completed, cols))
    /\ photoSeq' = photoSeq + 1

\* "Get or create photo record" (lines 166-188 and 216-228): the existing
\* row is updated, or a row is added, with is_completed = completed.
WritePhoto(completed, cols) ==
    IF sd.existing_photo # <<>>
    THEN /\ photos' = UpdatedPhotos(sd.existing_photo[1],
                         IF completed = 1 THEN CompleteColumns(cols)
                         ELSE [is_completed |-> 0])
         /\ photoSeq' = photoSeq
    ELSE /\ photos' = Append(photos,
                         NewPhotoRow(sd.folder_id, sd.directory_path, sd.filename, completed, cols))
         /\ photoSeq' = photoSeq + 1

\* A copy that takes the duplicate photo for its target.
WrittenPhotoIdOfDonor ==
    IF sd.duplicate_photo # <<>> THEN <<sd.duplicate_photo[1].id>>
    ELSE IF sd.existing_photo # <<>> THEN sd.existing_photo ELSE <<photoSeq + 1>>

\* photo_id after lines 166-188 and 216-228: the id of the row written.
WrittenPhotoId == IF sd.existing_photo # <<>> THEN sd.existing_photo ELSE <<photoSeq + 1>>

\* Lines 164-188: the candidate's row is written complete.  An exception
\* here is caught nowhere.
DupWritePhoto ==
    /\ pc = "dup_photo"
    /\ \/ /\ Commits
          /\ WritePhoto(1, DuplicateColumns(sd))
          /\ sd' = [sd EXCEPT !.photo_id = WrittenPhotoId]
          /\ pc' = "copy_delete_metadata"
          /\ UNCHANGED <<walk, cur, ret>>
       \/ /\ Raises
          /\ RaiseOut(sd.filename, "dup_raised")
          /\ UNCHANGED <<photos, photoSeq>>
    /\ UNCHANGED <<web, disk, folders, folderSeq, metadata, tags, model_loaded, prev, runs>>

\* _copy_photo_metadata_and_tags catches every exception, prints it and
\* returns False; scan_directory does not look at the value (line 191).
CopyFails ==
    /\ Raises
    /\ cur' = [cur EXCEPT !.outcome[sd.filename] = "copy_failed", !.faulted = TRUE]
    /\ sd' = [sd EXCEPT !.items = <<>>, !.labels = <<>>]
    /\ pc' = "dup_done"

\* Lines 315-318: the source's metadata is read, the target's is deleted.
CopyDeleteMetadata ==
    /\ pc = "copy_delete_metadata"
    /\ \/ /\ Commits
          /\ metadata' = WithoutPhotoMetadata(sd.photo_id[1])
          /\ sd' = [sd EXCEPT !.items = PhotoMetadata(sd.duplicate_photo[1].id)]
          /\ pc' = "copy_metadata"
          /\ UNCHANGED cur
       \/ CopyFails /\ UNCHANGED metadata
    /\ UNCHANGED <<web, disk, folders, folderSeq, photos, photoSeq, tags, model_loaded, walk, prev, ret, runs>>

\* Lines 321-322: one add_metadata of the copy.
CopyAddMetadata ==
    /\ pc = "copy_metadata" /\ sd.items # <<>>
    /\ \/ /\ Commits
          /\ metadata' = Append(metadata,
                [photo_id |-> sd.photo_id[1], key |-> Head(sd.items).key,
                 value |-> Head(sd.items).value])
          /\ sd' = [sd EXCEPT !.items = Tail(@)]
          /\ UNCHANGED <<pc, cur>>
       \/ CopyFails /\ UNCHANGED metadata
    /\ UNCHANGED <<web, disk, folders, folderSeq, photos, photoSeq, tags, model_loaded, walk, prev, ret, runs>>

\* Lines 325-328: the source's tags are read, the target's are deleted.
CopyDeleteTags ==
    /\ pc = "copy_metadata" /\ sd.items = <<>>
    /\ \/ /\ Commits
          /\ tags' = WithoutPhotoTags(sd.photo_id[1])
          /\ sd' = [sd EXCEPT !.labels = PhotoTags(sd.duplicate_photo[1].id)]
          /\ pc' = IF PhotoTags(sd.duplicate_photo[1].id) = <<>> THEN "dup_done" ELSE "copy_tags"
          /\ UNCHANGED cur
       \/ CopyFails /\ UNCHANGED tags
    /\ UNCHANGED <<web, disk, folders, folderSeq, photos, photoSeq, metadata, model_loaded, walk, prev, ret, runs>>

\* Lines 331-332: one add_tag of the copy.
CopyAddTag ==
    /\ pc = "copy_tags"
    /\ \/ /\ Commits
          /\ tags' = Append(tags, [photo_id |-> sd.photo_id[1], tag |-> Head(sd.labels).tag])
          /\ sd' = [sd EXCEPT !.labels = Tail(@)]
          /\ pc' = IF Tail(sd.labels) = <<>> THEN "dup_done" ELSE "copy_tags"
          /\ UNCHANGED cur
       \/ CopyFails /\ UNCHANGED tags
    /\ UNCHANGED <<web, disk, folders, folderSeq, photos, photoSeq, metadata, model_loaded, walk, prev, ret, runs>>

\* Lines 193-196: the file is counted as a duplicate, whatever the copy
\* returned.
DupDone ==
    /\ pc = "dup_done"
    /\ sd' = [sd EXCEPT !.duplicates_found = @ + 1]
    /\ cur' = [cur EXCEPT !.outcome[sd.filename] =
                  IF @ = "copy_failed" THEN "dup_copy_failed" ELSE "dup"]
    /\ pc' = "loop"
    /\ UNCHANGED <<web, disk, catalog, model_loaded, walk, prev, ret, runs, faults>>

\* An exception inside the try block (lines 200-252) is caught at line 254.
Caught ==
    /\ Raises
    /\ cur' = [cur EXCEPT !.outcome[sd.filename] = "write_failed", !.faulted = TRUE]
    /\ sd' = [sd EXCEPT !.items = <<>>, !.labels = <<>>]
    /\ pc' = "handler"

\* Lines 214-228: the row is written complete with the image's columns.
InfWritePhoto ==
    /\ pc = "inf_photo"
    /\ \/ /\ Commits
          /\ WritePhoto(1, ResultColumns(sd))
          /\ sd' = [sd EXCEPT !.photo_id = WrittenPhotoId]
          /\ pc' = "inf_delete_metadata"
          /\ UNCHANGED cur
       \/ Caught /\ UNCHANGED <<photos, photoSeq>>
    /\ UNCHANGED <<web, disk, folders, folderSeq, metadata, tags, model_loaded, walk, prev, ret, runs>>

\* Line 232
InfDeleteMetadata ==
    /\ pc = "inf_delete_metadata"
    /\ \/ /\ Commits
          /\ metadata' = WithoutPhotoMetadata(sd.photo_id[1])
          /\ pc' = "inf_delete_tags"
          /\ UNCHANGED <<sd, cur>>
       \/ Caught /\ UNCHANGED metadata
    /\ UNCHANGED <<web, disk, folders, folderSeq, photos, photoSeq, tags, model_loaded, walk, prev, ret, runs>>

\* Where the try block stands once the metadata loop (lines 236-239) is over:
\* at the tags of q2 (lines 242-247), or at its end.
AfterMetadata(l) ==
    IF HasKey(l.image_results, "q2") /\ KeywordTags(DictGet(l.image_results, "q2")) # <<>>
    THEN "inf_tags" ELSE "inf_done"

\* Line 233, and the items the loop at line 236 will insert.
InfDeleteTags ==
    /\ pc = "inf_delete_tags"
    /\ \/ /\ Commits
          /\ tags' = WithoutPhotoTags(sd.photo_id[1])
          /\ sd' = [sd EXCEPT
                      !.items = MetadataItems(sd.image_results),
                      !.labels = IF HasKey(sd.image_results, "q2")
                                 THEN KeywordTags(DictGet(sd.image_results, "q2")) ELSE <<>>]
          /\ pc' = IF MetadataItems(sd.image_results) = <<>> THEN AfterMetadata(sd)
                   ELSE "inf_metadata"
          /\ UNCHANGED cur
       \/ Caught /\ UNCHANGED tags
    /\ UNCHANGED <<web, disk, folders, folderSeq, photos, photoSeq, metadata, model_loaded, walk, prev, ret, runs>>

\* Line 239: one add_metadata.
InfAddMetadata ==
    /\ pc = "inf_metadata"
    /\ \/ /\ Commits
          /\ metadata' = Append(metadata,
                [photo_id |-> sd.photo_id[1], key |-> Head(sd.items)[1],
                 value |-> Head(sd.items)[2]])
          /\ sd' = [sd EXCEPT !.items = Tail(@)]
          /\ pc' = IF Tail(sd.items) = <<>> THEN AfterMetadata(sd) ELSE "inf_metadata"
          /\ UNCHANGED cur
       \/ Caught /\ UNCHANGED metadata
    /\ UNCHANGED <<web, disk, folders, folderSeq, photos, photoSeq, tags, model_loaded, walk, prev, ret, runs>>

\* Line 247: one add_tag.
InfAddTag ==
    /\ pc = "inf_tags"
    /\ \/ /\ Commits
          /\ tags' = Append(tags, [photo_id |-> sd.photo_id[1], tag |-> Head(sd.labels)])
          /\ sd' = [sd EXCEPT !.labels = Tail(@)]
          /\ pc' = IF Tail(sd.labels) = <<>> THEN "inf_done" ELSE "inf_tags"
          /\ UNCHANGED cur
       \/ Caught /\ UNCHANGED tags
    /\ UNCHANGED <<web, disk, folders, folderSeq, photos, photoSeq, metadata, model_loaded, walk, prev, ret, runs>>

\* Lines 249-252: the file is counted as processed, then _dump_photo_info
\* reads its photo, metadata and tags back and prints them, still inside the
\* try block: when a read raises, the file stays counted and the handler
\* at line 254 takes over.
InfDone ==
    /\ pc = "inf_done"
    /\ sd' = [sd EXCEPT !.processed_images = @ + 1]
    /\ \/ /\ Commits
          /\ cur' = [cur EXCEPT !.outcome[sd.filename] = "processed"]
          /\ pc' = "loop"
       \/ /\ Raises
          /\ cur' = [cur EXCEPT !.outcome[sd.filename] = "dump_failed", !.faulted = TRUE]
          /\ pc' = "handler"
    /\ UNCHANGED <<web, disk, catalog, model_loaded, walk, prev, ret, runs>>

\* A handler that prints the error and writes nothing.
HandlerWritesNothing ==
    /\ pc = "handler"
    /\ pc' = "loop"
    /\ UNCHANGED <<web, disk, catalog, model_loaded, sd, walk, cur, prev, ret, runs, faults>>

\* Lines 254-260: the handler marks the existing row not completed, or adds
\* a row that is not completed.  An exception here is caught nowhere.
Handler ==
    /\ pc = "handler"
    /\ \/ /\ Commits
          /\ WritePhoto(0, NoColumns)
          /\ pc' = "loop"
          /\ UNCHANGED <<sd, walk, cur, ret>>
       \/ /\ Raises
          /\ RaiseOut(sd.filename, cur.outcome[sd.filename])
          /\ UNCHANGED <<photos, photoSeq>>
    /\ UNCHANGED <<web, disk, folders, folderSeq, metadata, tags, model_loaded, prev, runs>>

\* The process is interrupted between two steps of a scan: the catalog
\* keeps what was committed, and the next call starts from a new
\* BatchScanner.
Crash ==
    /\ pc # "idle"
    /\ Raises
    /\ cur' = IF pc = "walk" THEN cur ELSE [cur EXCEPT !.status = "crashed"]
    /\ sd' = NoSd /\ walk' = NoWalk /\ pc' = "idle"
    /\ model_loaded' = FALSE
    /\ ret' = [ret EXCEPT !.kind = "crashed"]
    /\ UNCHANGED <<web, disk, catalog, prev, runs>>

(* ---------------------------- scan_recursive --------------------------- *)

\* os.walk(root), top-down: the root, then the walk of each subdirectory.
RECURSIVE WalkOrder(_)
WalkOrder(dir) ==
    LET subs == { e.path : e \in { x \in disk[dir] : x.kind = "dir" } }
        RECURSIVE Each(_)
        Each(S) == IF S = {} THEN <<>>
                   ELSE LET d == CHOOSE x \in S : TRUE
                        IN WalkOrder(d) \o Each(S \ {d})
    IN <<dir>> \o Each(subs)

\* Lines 280-284: the model is loaded, then the path is found to be no
\* directory.
ScanRecursiveInvalid(path) ==
    /\ pc = "idle" /\ runs < MaxRuns /\ ~IsDir(path)
    /\ runs' = runs + 1
    /\ model_loaded' = TRUE
    /\ ret' = [Called("scan_recursive", path) EXCEPT !.kind = "error"]
    /\ UNCHANGED <<web, disk, catalog, pc, sd, walk, cur, prev, faults>>

\* Lines 280-288 for a directory: the walk begins.
CliScanRecursive(path) ==
    /\ pc = "idle" /\ runs < MaxRuns /\ IsDir(path)
    /\ runs' = runs + 1
    /\ model_loaded' = TRUE
    /\ walk' = [NoWalk EXCEPT !.active = TRUE, !.todo = WalkOrder(path)]
    /\ pc' = "walk"
    /\ ret' = Called("scan_recursive", path)
    /\ UNCHANGED <<web, disk, catalog, sd, cur, prev, faults>>

\* Line 289: scan_directory(dirpath) for the next directory of the walk.
WalkNext ==
    /\ pc = "walk" /\ walk.todo # <<>>
    /\ EnterScanDirectory(Head(walk.todo), [walk EXCEPT !.todo = Tail(@)],
                          [ret EXCEPT !.visited = Append(@, Head(walk.todo))])
    /\ UNCHANGED runs

\* Line 300: the walk is over.
WalkReturn ==
    /\ pc = "walk" /\ walk.todo = <<>>
    /\ pc' = "idle" /\ walk' = NoWalk
    /\ ret' = [ret EXCEPT !.kind = "summary",
                          !.directories_scanned = walk.directories_scanned,
                          !.total_images = walk.total_images,
                          !.processed = walk.processed, !.skipped = walk.skipped]
    /\ UNCHANGED <<web, disk, catalog, model_loaded, sd, cur, prev, runs, faults>>

(* ---------------------------- specification ---------------------------- *)

Next ==
    \/ \E path \in Paths : ScanDirectoryInvalid(path)
    \/ \E path \in Paths : CliScanDirectory(path)
    \/ ReturnSummary
    \/ \E u \in sd.unprocessed : FingerprintRaises(u)
    \/ \E u \in sd.unprocessed : BeginDuplicate(u)
    \/ \E u \in sd.unprocessed : InferenceRaises(u)
    \/ \E u \in sd.unprocessed, ans \in Answers : InferenceReturns(u, ans)
    \/ DupWritePhoto
    \/ CopyDeleteMetadata
    \/ CopyAddMetadata
    \/ CopyDeleteTags
    \/ CopyAddTag
    \/ DupDone
    \/ InfWritePhoto
    \/ InfDeleteMetadata
    \/ InfDeleteTags
    \/ InfAddMetadata
    \/ InfAddTag
    \/ InfDone
    \/ Handler
    \/ Crash
    \/ \E path \in Paths : ScanRecursiveInvalid(path)
    \/ \E path \in Paths : CliScanRecursive(path)
    \/ WalkNext
    \/ WalkReturn

Spec == Init /\ [][Next]_vars

(* --------------------------- the web application ----------------------- *)

\* The state the command-line scanner has and the web application has not.
cli == <<model_loaded, pc, sd, walk, cur, prev, ret, runs>>

\* A sequence of the elements of a set, as a directory listing orders them.
RECURSIVE SeqOf(_)
SeqOf(S) ==
    IF S = {} THEN <<>>
    ELSE LET x == CHOOSE y \in S : TRUE IN <<x>> \o SeqOf(S \ {x})

\* Lines 73-77: the image files under folder_path, subdirectories included
\* (os.walk), each with the directory it is in.
RECURSIVE ImagesOfWalk(_)
ImagesOfWalk(dirs) ==
    IF dirs = <<>> THEN <<>>
    ELSE SeqOf({ [dir |-> Head(dirs), filename |-> n] : n \in ImageFiles(Head(dirs)) })
             \o ImagesOfWalk(Tail(dirs))

\* Lines 94-110: unprocessed_files, each file with the row existing_photo_map
\* holds for its filename.
UnprocessedOf(folderid, files) ==
    LET candidate(f) == ~IsKnownComplete(folderid, f.filename)
    IN [i \in 1..Len(SelectSeq(files, candidate)) |->
          [dir |-> SelectSeq(files, candidate)[i].dir,
           filename |-> SelectSeq(files, candidate)[i].filename,
           existing_photo |-> ExistingId(folderid, SelectSeq(files, candidate)[i].filename)]]

\* start_scan (lines 352-374): the request is turned down when scan_running
\* is set or the path is no directory; else a thread is made and started.
StartScan(path) ==
    /\ ~scan_running
    /\ IsDir(path)
    /\ \E t \in Threads :
          /\ tasks[t].pc = "none" /\ \A s \in 1..(t - 1) : tasks[s].pc # "none"
          /\ tasks' = [tasks EXCEPT ![t] = [NoTask EXCEPT !.pc = "spawned", !.folder_path = path]]
    /\ scan_folder' = path
    /\ UNCHANGED <<disk, catalog, cli, faults, thumbnails, scan_running, scanner, api, delete_photos>>

\* The task is between its line 55 and its finally clause.
IsScanning(task) ==
    task.pc \in {"collect", "loop", "file", "insert", "thumbnail"}

\* stop_scan (lines 376-385): turned down when scan_running is not set; else
\* the flag is cleared.
StopScan ==
    /\ scan_running
    /\ scan_running' = FALSE
    /\ tasks' = [t \in Threads |->
                   IF IsScanning(tasks[t]) THEN [tasks[t] EXCEPT !.stop_requested = TRUE]
                   ELSE tasks[t]]
    /\ UNCHANGED <<disk, catalog, cli, faults, thumbnails, scan_folder, scanner, api, delete_photos>>

\* Lines 48-66 of background_scan_task: the scanner is made and its model
\* loaded when there is none, and scan_running is set.
TaskBegin(t) ==
    /\ tasks[t].pc = "spawned"
    /\ scanner' = IF scanner = "None" THEN "loaded" ELSE scanner
    /\ scan_running' = TRUE
    /\ tasks' = [tasks EXCEPT ![t].pc = "collect"]
    /\ UNCHANGED <<disk, catalog, cli, faults, thumbnails, scan_folder, api, delete_photos>>

\* Lines 48-51 raise, before the try block is entered: nothing catches the
\* exception and the thread ends.  BatchScanner(db_file) raised and there is
\* no scanner, or load_model raised and the global holds a scanner without a
\* model, or check_gpu raised after the model was loaded.
TaskBeginFails(t) ==
    /\ tasks[t].pc = "spawned"
    /\ scanner = "None"
    /\ Raises
    /\ scanner' \in {"None", "unloaded", "loaded"}
    /\ tasks' = [tasks EXCEPT ![t].pc = "failed"]
    /\ UNCHANGED <<disk, catalog, cli, thumbnails, scan_running, scan_folder, api, delete_photos>>

\* socketio.emit raises: the exception is caught at line 228 and the task
\* goes to its finally clause.
EmitFails(t) ==
    /\ Raises
    /\ tasks' = [tasks EXCEPT ![t].pc = "finally", ![t].emit_failed = TRUE,
                              ![t].todo = <<>>, ![t].current = <<>>]

\* Lines 68-118: the files are collected, the folder row is made sure of and
\* the files are parted; the loop at line 101 returns when scan_running is
\* cleared.  Of the four progress updates, two come before add_folder.
TaskPartition(t) ==
    /\ tasks[t].pc = "collect"
    /\ LET path == tasks[t].folder_path
           files == ImagesOfWalk(WalkOrder(path))
       IN \/ /\ Commits
             /\ folders' = AddFolderTable(path) /\ folderSeq' = AddFolderSeq(path)
             /\ tasks' = [tasks EXCEPT
                            ![t].folder_id = AddFolderId(path),
                            ![t].pc = IF files # <<>> /\ ~scan_running THEN "finally" ELSE "loop",
                            ![t].todo = IF files # <<>> /\ ~scan_running THEN <<>>
                                        ELSE UnprocessedOf(AddFolderId(path), files)]
          \/ /\ EmitFails(t)
             /\ \/ UNCHANGED <<folders, folderSeq>>
                \/ folders' = AddFolderTable(path) /\ folderSeq' = AddFolderSeq(path)
    /\ UNCHANGED <<disk, photos, photoSeq, metadata, tags, cli, thumbnails,
                   scan_running, scan_folder, scanner, api, delete_photos>>

\* Lines 124-158: the loop takes the next file unless scan_running is
\* cleared, and sends the progress update.
TaskNextFile(t) ==
    /\ tasks[t].pc = "loop" /\ tasks[t].todo # <<>>
    /\ IF ~scan_running
       THEN /\ tasks' = [tasks EXCEPT ![t].todo = <<>>]
            /\ Commits
       ELSE \/ /\ Commits
               /\ tasks' = [tasks EXCEPT ![t].pc = "file", ![t].current = <<Head(tasks[t].todo)>>,
                                         ![t].todo = Tail(@)]
            \/ EmitFails(t)
    /\ UNCHANGED <<disk, catalog, cli, thumbnails, scan_running, scan_folder, scanner, api, delete_photos>>

\* The id of the row the loop body writes for the file.
TaskPhotoId(f) == IF f.existing_photo # <<>> THEN f.existing_photo[1] ELSE photoSeq + 1

\* Lines 173-187 and 215-218: the existing row is updated, or a row is
\* added, with is_completed = completed.
TaskWritePhoto(t, f, completed, cols) ==
    IF f.existing_photo # <<>>
    THEN /\ photos' = UpdatedPhotos(f.existing_photo[1],
                         IF completed = 1 THEN CompleteColumns(cols)
                         ELSE [is_completed |-> 0])
         /\ photoSeq' = photoSeq
    ELSE /\ photos' = Append(photos,
                         NewPhotoRow(tasks[t].folder_id, f.dir, f.filename, completed, cols))
         /\ photoSeq' = photoSeq + 1

\* Lines 159-191: process_single_image returns, the row is written complete
\* with the image's columns, and delete_photo_metadata and delete_photo_tags
\* remove what the photo had.  Without a model, or without the file,
\* process_single_image raises (photo_scanner.py 113-118).
TaskProcessImage(t, ans) ==
    /\ tasks[t].pc = "file"
    /\ scanner = "loaded"
    /\ FileExists(JoinPath(tasks[t].current[1].dir, tasks[t].current[1].filename))
    /\ LET f == tasks[t].current[1]
           results == ImageResults(f.dir, f.filename, ans)
       IN /\ TaskWritePhoto(t, f, 1, ResultColumns([image_results |-> results]))
          /\ metadata' = WithoutPhotoMetadata(TaskPhotoId(f))
          /\ tags' = WithoutPhotoTags(TaskPhotoId(f))
          /\ tasks' = [tasks EXCEPT ![t].pc = "insert", ![t].photo_id = <<TaskPhotoId(f)>>,
                                    ![t].image_results = results]
    /\ UNCHANGED <<disk, folders, folderSeq, cli, faults, thumbnails,
                   scan_running, scan_folder, scanner, api, delete_photos>>

\* Lines 193-205: one add_metadata per answer and one add_tag per keyword
\* of q2.
TaskInsert(t) ==
    /\ tasks[t].pc = "insert"
    /\ LET id == tasks[t].photo_id[1]
           results == tasks[t].image_results
           items == MetadataItems(results)
           labels == IF HasKey(results, "q2") THEN KeywordTags(DictGet(results, "q2")) ELSE <<>>
       IN /\ metadata' = metadata \o
                [i \in 1..Len(items) |->
                    [photo_id |-> id, key |-> items[i][1], value |-> items[i][2]]]
          /\ tags' = tags \o [i \in 1..Len(labels) |-> [photo_id |-> id, tag |-> labels[i]]]
    /\ tasks' = [tasks EXCEPT ![t].pc = "thumbnail", ![t].image_results = <<>>]
    /\ UNCHANGED <<disk, folders, folderSeq, photos, photoSeq, cli, faults, thumbnails,
                   scan_running, scan_folder, scanner, api, delete_photos>>

\* Lines 212-218: the handler of the loop body marks the row the file had at
\* the partition not completed, or adds a row that is not completed; the
\* loop goes on with the next file.
TaskHandler(t) ==
    /\ TaskWritePhoto(t, tasks[t].current[1], 0, NoColumns)
    /\ tasks' = [tasks EXCEPT ![t].pc = "loop", ![t].current = <<>>, ![t].photo_id = <<>>,
                              ![t].image_results = <<>>]

\* Lines 208-209: delete_thumbnail, then add_thumbnail.  When one of them
\* raises, or the INSERT is refused, the handler runs.
TaskThumbnail(t) ==
    /\ tasks[t].pc = "thumbnail"
    /\ LET f == tasks[t].current[1]
           id == tasks[t].photo_id[1]
           deleted == WithoutThumbnail(thumbnails, id)
       IN \/ /\ Commits
             /\ IF AddThumbnailRefused(deleted, id)
                THEN thumbnails' = deleted /\ TaskHandler(t)
                ELSE /\ thumbnails' = AddThumbnailTable(deleted, id,
                                          Content(JoinPath(f.dir, f.filename)))
                     /\ tasks' = [tasks EXCEPT ![t].pc = "loop", ![t].current = <<>>,
                                               ![t].photo_id = <<>>]
                     /\ UNCHANGED <<photos, photoSeq>>
          \/ /\ Raises
             /\ thumbnails' \in {thumbnails, deleted}
             /\ TaskHandler(t)
    /\ UNCHANGED <<disk, folders, folderSeq, metadata, tags, cli, scan_running, scan_folder, scanner, api, delete_photos>>

\* Lines 161 and 212-218: process_single_image raises and the handler runs.
TaskImageFails(t) ==
    /\ tasks[t].pc = "file"
    /\ TaskHandler(t)
    /\ UNCHANGED <<disk, folders, folderSeq, metadata, tags, cli, faults, thumbnails,
                   scan_running, scan_folder, scanner, api, delete_photos>>

\* Lines 220-233: the loop is over or was left; the final update is sent
\* (an exception of it is caught at line 228) and the finally clause clears
\* scan_running.
TaskEnd(t) ==
    /\ \/ tasks[t].pc = "loop" /\ tasks[t].todo = <<>>
       \/ tasks[t].pc = "finally"
    /\ scan_running' = FALSE
    /\ tasks' = [tasks EXCEPT ![t].pc = "done"]
    /\ UNCHANGED <<disk, catalog, cli, faults, thumbnails, scan_folder, scanner, api, delete_photos>>

WebNext ==
    \/ \E path \in Paths : StartScan(path)
    \/ StopScan
    \/ \E t \in Threads : TaskBegin(t)
    \/ \E t \in Threads : TaskBeginFails(t)
    \/ \E t \in Threads : TaskPartition(t)
    \/ \E t \in Threads : TaskNextFile(t)
    \/ \E t \in Threads, ans \in Answers : TaskProcessImage(t, ans)
    \/ \E t \in Threads : TaskInsert(t)
    \/ \E t \in Threads : TaskThumbnail(t)
    \/ \E t \in Threads : TaskImageFails(t)
    \/ \E t \in Threads : TaskEnd(t)

WebSpec == Init /\ [][WebNext]_vars

\* The steps of the thread t.
TaskStep(t) ==
    \/ TaskBegin(t)
    \/ TaskPartition(t)
    \/ TaskNextFile(t)
    \/ \E ans \in Answers : TaskProcessImage(t, ans)
    \/ TaskInsert(t)
    \/ TaskThumbnail(t)
    \/ TaskImageFails(t)
    \/ TaskEnd(t)

\* The web application started on the disk with two image files.
WebFairInit == Init /\ disk = DiskMixed

\* The web application on that disk, with threads that go on as long as
\* they can: a started thread is scheduled, and every call it makes
\* (inference too) returns or raises.  Requests and failures come or do not.
WebFairSpec ==
    /\ WebFairInit
    /\ [][WebNext]_vars
    /\ \A t \in Threads : WF_vars(TaskStep(t))

(* ------------------- the repository, called from outside --------------- *)

\* The ids of the photo and folder rows there are.
PhotoIds == { photos[i].id : i \in 1..Len(photos) }

FolderIds == { folders[i].id : i \in 1..Len(folders) }

\* One more call is made from outside the scans; refused tells that it
\* raised, response is what a request handler answered.
Call(name, refused) ==
    api' = [calls |-> api.calls + 1, name |-> name, refused |-> refused, response |-> <<>>]

\* PhotoPreviewRepository.add_thumbnail(photo_id, image_path) for a photo of
\* the catalog and its file.
AddThumbnail(photo_id) ==
    /\ api.calls < MaxCalls /\ photo_id \in PhotoIds
    /\ LET fullpath == PhotoById(photo_id).fullpath
       IN IF AddThumbnailRefused(thumbnails, photo_id)
          THEN Call("add_thumbnail", TRUE) /\ UNCHANGED thumbnails
          ELSE /\ Call("add_thumbnail", FALSE)
               /\ thumbnails' = AddThumbnailTable(thumbnails, photo_id,
                                    Entry(fullpath[1], fullpath[2]).content)
    /\ UNCHANGED <<disk, catalog, cli, faults, scan_running, scan_folder, scanner, tasks, delete_photos>>

\* PhotoPreviewRepository.delete_thumbnail(photo_id)
DeleteThumbnail(photo_id) ==
    /\ api.calls < MaxCalls /\ photo_id \in PhotoIds
    /\ Call("delete_thumbnail", FALSE)
    /\ thumbnails' = WithoutThumbnail(thumbnails, photo_id)
    /\ UNCHANGED <<disk, catalog, cli, faults, scan_running, scan_folder, scanner, tasks, delete_photos>>

\* PhotoRepository.delete_photo(photo_id): the row of the photo is deleted.
\* The connections of the repositories do not turn foreign keys on, so no
\* other table is looked at.
DeletePhoto(photo_id) ==
    /\ api.calls < MaxCalls /\ photo_id \in PhotoIds
    /\ Call("delete_photo", FALSE)
    /\ photos' = SelectSeq(photos, LAMBDA r : r.id # photo_id)
    /\ UNCHANGED <<disk, folders, folderSeq, photoSeq, metadata, tags, cli, faults,
                   thumbnails, scan_running, scan_folder, scanner, tasks, delete_photos>>

\* The tables a transaction of FolderRepository writes, and the statements
\* of the body of delete_folder (lines 286-289).
FolderTables == [photos |-> photos, folders |-> folders]

DeleteFolderBody(folder_id) ==
    << [sql |-> "DELETE FROM photos WHERE folderid = ?", arg |-> folder_id],
       [sql |-> "DELETE FROM folders WHERE id = ?", arg |-> folder_id] >>

\* cursor.execute(sql, (arg,)) on the connection's view of the tables.
Execute(db, stmt) ==
    IF stmt.sql = "DELETE FROM photos WHERE folderid = ?"
    THEN [db EXCEPT !.photos = SelectSeq(@, LAMBDA r : r.folderid # stmt.arg)]
    ELSE [db EXCEPT !.folders = SelectSeq(@, LAMBDA r : r.id # stmt.arg)]

\* The connection's view after the first n statements of a body.
RECURSIVE Executed(_, _, _)
Executed(db, body, n) ==
    IF n = 0 THEN db ELSE Execute(Executed(db, body, n - 1), body[n])

\* Where a transaction block can raise: in one of its statements, or in
\* connection.commit(); 0 stands for no exception.
RaisePoints(body) == 0..(Len(body) + 1)

\* A transaction whose except clause does not roll back: what was executed
\* before the exception stays.
TransactionWithoutRollback(db, body, raises_at) ==
    IF raises_at = 0
    THEN [db |-> Executed(db, body, Len(body)), raised |-> FALSE]
    ELSE [db |-> Executed(db, body, IF raises_at > Len(body) THEN Len(body) ELSE raises_at - 1),
          raised |-> TRUE]

\* RepositoryBase.transaction() (lines 30-49) around a body: the statements
\* are executed and committed, or, when one of them or the commit raises,
\* rolled back and the exception raised again.  db is what is persisted
\* when the block is left.
Transaction(db, body, raises_at) ==
    IF raises_at = 0
    THEN [db |-> Executed(db, body, Len(body)), raised |-> FALSE]
    ELSE [db |-> db, raised |-> TRUE]

\* FolderRepository.delete_folder(folder_id): the photo rows of the folder
\* and the folder row are deleted in one transaction.
DeleteFolder(folder_id) ==
    /\ api.calls < MaxCalls /\ folder_id \in FolderIds
    /\ \E raises_at \in RaisePoints(DeleteFolderBody(folder_id)) :
          /\ IF raises_at = 0 THEN Commits ELSE Raises
          /\ LET tx == Transaction(FolderTables, DeleteFolderBody(folder_id), raises_at)
             IN /\ photos' = tx.db.photos /\ folders' = tx.db.folders
                /\ Call("delete_folder", tx.raised)
    /\ UNCHANGED <<disk, folderSeq, photoSeq, metadata, tags, cli,
                   thumbnails, scan_running, scan_folder, scanner, tasks, delete_photos>>

\* The catalog a background scan of d1 leaves when process_single_image
\* raised for every file: the folder row, and a row that is not completed
\* for every image file under d1.
FailedScanPhotos(files) ==
    [i \in 1..Len(files) |->
        [id |-> i, folderid |-> 1, fullpath |-> JoinPath(files[i].dir, files[i].filename),
         filename |-> files[i].filename, is_completed |-> 0,
         filesize |-> "None", md5 |-> "None", width |-> "None",
         height |-> "None", month |-> "None", year |-> "None"]]

StoreInit ==
    /\ disk = DiskMixed
    /\ folders = <<[id |-> 1, path |-> DirRoot]>> /\ folderSeq = 1
    /\ photos = FailedScanPhotos(ImagesOfWalk(WalkOrder(DirRoot)))
    /\ photoSeq = Len(photos)
    /\ metadata = <<>> /\ tags = <<>>
    /\ model_loaded = FALSE
    /\ pc = "idle" /\ sd = NoSd /\ walk = NoWalk
    /\ cur = NoCall /\ prev = Ended(NoCall) /\ ret = NoRet
    /\ runs = 0
    /\ faults = MaxFaults
    /\ thumbnails = <<>>
    /\ scan_running = FALSE /\ scan_folder = "None" /\ scanner = "None"
    /\ api = NoCalls
    /\ delete_photos = NoRequest
    /\ tasks = [t \in Threads |-> NoTask]

StoreNext ==
    \/ WebNext
    \/ \E photo_id \in 1..photoSeq : AddThumbnail(photo_id)
    \/ \E photo_id \in 1..photoSeq : DeleteThumbnail(photo_id)
    \/ \E photo_id \in 1..photoSeq : DeletePhoto(photo_id)
    \/ \E folder_id \in 1..folderSeq : DeleteFolder(folder_id)

StoreSpec == StoreInit /\ [][StoreNext]_vars

(* --------------------------- /api/photos/delete ------------------------ *)

\* The lists of photo ids a request may carry: ids of rows there are or have
\* been, and the next id, which no row has.
IdLists ==
    UNION { [1..n -> 1..(photoSeq + 1)] : n \in 1..MaxIds }

\* Lines 430-439: the request is read and the counters are set to zero.
DeletePhotosRequest(photo_ids, delete_from_disk) ==
    /\ delete_photos.pc = "none"
    /\ delete_photos' = [NoRequest EXCEPT !.pc = "lookup", !.photo_ids = photo_ids,
                                          !.delete_from_disk = delete_from_disk,
                                          !.total = Len(photo_ids)]
    /\ UNCHANGED <<disk, catalog, cli, faults, thumbnails, scan_running, scan_folder,
                   scanner, tasks, api>>

\* The loop goes on with the next id of the list.
NextId(request) == [request EXCEPT !.pc = "lookup", !.photo_ids = Tail(@), !.photo_id = 0]

\* Lines 441-458: the row of the next id is read; an id without a row is
\* passed over; the file is removed when that was asked for and it exists.
\* When os.remove raises the id is counted in failed_count and the loop
\* goes on; so it does (line 470) when get_photo_by_id raises.
DeleteLookup ==
    /\ delete_photos.pc = "lookup" /\ delete_photos.photo_ids # <<>>
    /\ LET photo_id == Head(delete_photos.photo_ids)
           found == photo_id \in PhotoIds
           fullpath == PhotoById(photo_id).fullpath
       IN \/ /\ Commits /\ ~found
             /\ delete_photos' = [NextId(delete_photos) EXCEPT !.unknown = @ \cup {photo_id}]
             /\ UNCHANGED disk
          \/ /\ Commits /\ found
             /\ disk' = IF delete_photos.delete_from_disk /\ FileExists(fullpath)
                        THEN Removed(fullpath) ELSE disk
             /\ delete_photos' = [delete_photos EXCEPT !.pc = "delete", !.photo_id = photo_id]
          \/ /\ Raises /\ found
             /\ delete_photos.delete_from_disk /\ FileExists(fullpath)
             /\ delete_photos' = [NextId(delete_photos) EXCEPT
                                     !.failed_count = @ + 1, !.failed = @ \cup {photo_id},
                                     !.unremoved = @ \cup {photo_id}]
             /\ UNCHANGED disk
          \/ /\ Raises
             /\ delete_photos' = [NextId(delete_photos) EXCEPT
                                     !.failed_count = @ + 1, !.failed = @ \cup {photo_id}]
             /\ UNCHANGED disk
    /\ UNCHANGED <<catalog, cli, thumbnails, scan_running, scan_folder, scanner, tasks, api>>

\* Lines 460-467: delete_thumbnail, delete_photo_metadata, delete_photo_tags
\* and delete_photo, each a transaction of its own, and the id is counted in
\* deleted_count; when the n-th of them raises, those before it stay done
\* and the id is counted in failed_count (line 470).
DeleteRows ==
    /\ delete_photos.pc = "delete"
    /\ LET photo_id == delete_photos.photo_id
       IN \E done \in 0..4 :
            /\ IF done = 4 THEN Commits ELSE Raises
            /\ thumbnails' = IF done >= 1 THEN WithoutThumbnail(thumbnails, photo_id)
                             ELSE thumbnails
            /\ metadata' = IF done >= 2 THEN WithoutPhotoMetadata(photo_id) ELSE metadata
            /\ tags' = IF done >= 3 THEN WithoutPhotoTags(photo_id) ELSE tags
            /\ photos' = IF done = 4 THEN SelectSeq(photos, LAMBDA r : r.id # photo_id)
                         ELSE photos
            /\ delete_photos' =
                 IF done = 4
                 THEN [NextId(delete_photos) EXCEPT
                          !.deleted_count = @ + 1, !.deleted = @ \cup {photo_id}]
                 ELSE [NextId(delete_photos) EXCEPT
                          !.failed_count = @ + 1, !.failed = @ \cup {photo_id}]
    /\ UNCHANGED <<disk, folders, folderSeq, photoSeq, cli, scan_running, scan_folder,
                   scanner, tasks, api>>

\* Lines 473-477: the list is at its end and the counts are returned.
DeleteReturn ==
    /\ delete_photos.pc = "lookup" /\ delete_photos.photo_ids = <<>>
    /\ delete_photos' = [delete_photos EXCEPT !.pc = "returned"]
    /\ UNCHANGED <<disk, catalog, cli, faults, thumbnails, scan_running, scan_folder,
                   scanner, tasks, api>>

\* The catalog a background scan of d1 leaves when process_single_image
\* returned for the first file and raised for the others: the first row
\* complete, with its metadata, tags and thumbnail, the others not completed.
ScannedPhotos(files, results) ==
    [i \in 1..Len(files) |->
        LET cols == IF i = 1 THEN ResultColumns([image_results |-> results]) ELSE NoColumns
        IN [id |-> i, folderid |-> 1,
            fullpath |-> JoinPath(files[i].dir, files[i].filename),
            filename |-> files[i].filename, is_completed |-> IF i = 1 THEN 1 ELSE 0,
            filesize |-> cols.filesize, md5 |-> cols.md5, width |-> cols.width,
            height |-> cols.height, month |-> cols.month, year |-> cols.year]]

\* The web application after that scan: its thread has ended, the scanner
\* is there, and a second scan may be started.
DeleteInit ==
    /\ disk = DiskMixed
    /\ folders = <<[id |-> 1, path |-> DirRoot]>> /\ folderSeq = 1
    /\ LET files == ImagesOfWalk(WalkOrder(DirRoot))
           ans == CHOOSE a \in Answers : a.q1 = <<"x">>
           results == ImageResults(files[1].dir, files[1].filename, ans)
           items == MetadataItems(results)
           labels == KeywordTags(ans.q2)
       IN /\ photos = ScannedPhotos(files, results)
          /\ photoSeq = Len(files)
          /\ metadata = [i \in 1..Len(items) |->
                            [photo_id |-> 1, key |-> items[i][1], value |-> items[i][2]]]
          /\ tags = [i \in 1..Len(labels) |-> [photo_id |-> 1, tag |-> labels[i]]]
          /\ thumbnails = AddThumbnailTable(<<>>, 1, Entry(files[1].dir, files[1].filename).content)
    /\ model_loaded = FALSE
    /\ pc = "idle" /\ sd = NoSd /\ walk = NoWalk
    /\ cur = NoCall /\ prev = Ended(NoCall) /\ ret = NoRet
    /\ runs = 0
    /\ faults = MaxFaults
    /\ scan_running = FALSE /\ scan_folder = DirRoot /\ scanner = "loaded"
    /\ api = NoCalls
    /\ delete_photos = NoRequest
    /\ tasks = [t \in Threads |->
                  IF t = 1 THEN [NoTask EXCEPT !.pc = "done", !.folder_path = DirRoot,
                                               !.folder_id = 1]
                  ELSE NoTask]

DeleteNext ==
    \/ \E path \in Paths : StartScan(path)
    \/ StopScan
    \/ \E t \in Threads : TaskBegin(t)
    \/ \E t \in Threads : TaskPartition(t)
    \/ \E t \in Threads : TaskNextFile(t)
    \/ \E t \in Threads, ans \in Answers : TaskProcessImage(t, ans)
    \/ \E t \in Threads : TaskInsert(t)
    \/ \E t \in Threads : TaskThumbnail(t)
    \/ \E t \in Threads : TaskImageFails(t)
    \/ \E t \in Threads : TaskEnd(t)
    \/ \E photo_ids \in IdLists, delete_from_disk \in BOOLEAN :
          DeletePhotosRequest(photo_ids, delete_from_disk)
    \/ DeleteLookup
    \/ DeleteRows
    \/ DeleteReturn

DeleteSpec == DeleteInit /\ [][DeleteNext]_vars

(* ------------------------ /api/folder/<id>/photos ---------------------- *)

\* The byte of a character: SQLite compares TEXT with memcmp (BINARY
\* collation).
CharCode(c) ==
    CASE c = "." -> 46 [] c = "G" -> 71 [] c = "J" -> 74 [] c = "P" -> 80
      [] c = "a" -> 97 [] c = "b" -> 98 [] c = "c" -> 99 [] c = "e" -> 101
      [] c = "f" -> 102 [] c = "g" -> 103 [] c = "i" -> 105 [] c = "j" -> 106
      [] c = "n" -> 110 [] c = "p" -> 112 [] c = "s" -> 115 [] c = "t" -> 116
      [] c = "u" -> 117 [] OTHER -> 120

\* s sorts before t.
TextLess(s, t) ==
    \E k \in 1..(Len(t)) :
        /\ \A i \in 1..(k - 1) : i <= Len(s) /\ s[i] = t[i]
        /\ \/ k = Len(s) + 1
           \/ k <= Len(s) /\ CharCode(s[k]) < CharCode(t[k])

\* The filenames of a set, in ascending order.
RECURSIVE Ascending(_)
Ascending(S) ==
    IF S = {} THEN <<>>
    ELSE LET least == CHOOSE s \in S : \A t \in S \ {s} : TextLess(s, t)
         IN <<least>> \o Ascending(S \ {least})

\* The rows with the first filename of the list, then those with the
\* second, and so on; each group in the order the rows have.
RECURSIVE GroupedBy(_, _)
GroupedBy(rows, names) ==
    IF names = <<>> THEN <<>>
    ELSE SelectSeq(rows, LAMBDA r : r.filename = Head(names)) \o GroupedBy(rows, Tail(names))

\* ORDER BY filename over rows in rowid order: rows with equal filenames
\* stay in rowid order.
OrderByFilename(rows) ==
    GroupedBy(rows, Ascending({ rows[i].filename : i \in 1..Len(rows) }))

\* LIMIT limit OFFSET offset
LimitOffset(rows, limit, offset) ==
    SubSeq(rows, offset + 1, IF offset + limit < Len(rows) THEN offset + limit ELSE Len(rows))

\* PhotoRepository.get_photos_count_by_folder and
\* get_photos_by_folder_paginated
PhotosCountByFolder(folderid) == Len(PhotosByFolder(folderid))

PhotosByFolderPaginated(folderid, offset, limit) ==
    LimitOffset(OrderByFilename(PhotosByFolder(folderid)), limit, offset)

\* An offset that counts the pages from zero.
OffsetOfNextPage(page) == page * PerPage

\* Lines 254-256 of get_photos_by_folder.
TotalPages(photos_count) == (photos_count + PerPage - 1) \div PerPage

Offset(page) == (page - 1) * PerPage

\* The response of /api/folder/<folder_id>/photos?page=<page>: the photos of
\* the page, each with its id and filename, and the pagination block.
PhotosResponse(folder_id, page) ==
    LET rows == PhotosByFolderPaginated(folder_id, Offset(page), PerPage)
    IN [photos |-> [i \in 1..Len(rows) |-> [id |-> rows[i].id, filename |-> rows[i].filename]],
        folder_id |-> folder_id, page |-> page, per_page |-> PerPage,
        total_photos |-> PhotosCountByFolder(folder_id),
        total_pages |-> TotalPages(PhotosCountByFolder(folder_id))]

\* The pages a client may ask for, one beyond the last among them.
Pages == 1..(TotalPages(MaxPhotos) + 1)

\* The filenames of the photos: two that differ in the case of one letter
\* (the later in the alphabet sorts first).
PageNames == {NameA, [NameA EXCEPT ![3] = "J"]}

\* PhotoRepository.add_photo for a file of a folder.
AddPhoto(folder_id, filename) ==
    /\ Len(photos) < MaxPhotos
    /\ photos' = Append(photos, NewPhotoRow(folder_id, folders[folder_id].path, filename,
                                            0, NoColumns))
    /\ photoSeq' = photoSeq + 1
    /\ UNCHANGED <<disk, folders, folderSeq, metadata, tags, cli, faults, thumbnails,
                   scan_running, scan_folder, scanner, tasks, api, delete_photos>>

\* get_photos_by_folder (lines 246-296)
GetPhotosByFolder(folder_id, page) ==
    /\ api' = [calls |-> 1, name |-> "get_photos_by_folder", refused |-> FALSE,
               response |-> PhotosResponse(folder_id, page)]
    /\ UNCHANGED <<disk, catalog, cli, faults, thumbnails, scan_running, scan_folder,
                   scanner, tasks, delete_photos>>

\* A catalog with two folders and no photo.
PageInit ==
    /\ disk = DiskTree
    /\ folders = <<[id |-> 1, path |-> DirRoot], [id |-> 2, path |-> DirSub]>>
    /\ folderSeq = 2
    /\ photos = <<>> /\ photoSeq = 0
    /\ metadata = <<>> /\ tags = <<>>
    /\ model_loaded = FALSE
    /\ pc = "idle" /\ sd = NoSd /\ walk = NoWalk
    /\ cur = NoCall /\ prev = Ended(NoCall) /\ ret = NoRet
    /\ runs = 0
    /\ faults = MaxFaults
    /\ thumbnails = <<>>
    /\ scan_running = FALSE /\ scan_folder = "None" /\ scanner = "None"
    /\ api = NoCalls
    /\ delete_photos = NoRequest
    /\ tasks = [t \in Threads |-> NoTask]

PageNext ==
    \/ \E folder_id \in 1..folderSeq, filename \in PageNames : AddPhoto(folder_id, filename)
    \/ \E folder_id \in 1..folderSeq, page \in Pages : GetPhotosByFolder(folder_id, page)

PageSpec == PageInit /\ [][PageNext]_vars

(* ---------------------- vocabulary of the properties ------------------- *)

\* The rows of a photos table that belong to the file `name` of `dir`.
PhotoRowsOf(table, dir, name) ==
    { table[i] : i \in { j \in 1..Len(table) : table[j].fullpath = JoinPath(dir, name) } }

\* The file has a row, and a row marked complete.
HasPhoto(dir, name) == PhotoRowsOf(photos, dir, name) # {}

HasCompletePhoto(dir, name) == \E r \in PhotoRowsOf(photos, dir, name) : r.is_completed = 1

\* The row scan_directory takes for the file (existing_photo_map keeps the
\* last row of a filename).
FilePhoto(dir, name) ==
    CHOOSE r \in PhotoRowsOf(photos, dir, name) :
        \A q \in PhotoRowsOf(photos, dir, name) : q.id <= r.id

IsCompleteIn(table, photo_id) ==
    \E i \in 1..Len(table) : table[i].id = photo_id /\ table[i].is_completed = 1

\* A photo's metadata as a set of (key, value) pairs, its tags as a set.
MetadataPairs(table, photo_id) ==
    { <<table[i].key, table[i].value>> : i \in { j \in 1..Len(table) : table[j].photo_id = photo_id } }

TagLabels(table, photo_id) ==
    { table[i].tag : i \in { j \in 1..Len(table) : table[j].photo_id = photo_id } }

\* A metadata entry is persisted for every inference answer key.
HasAllAnswers(photo_id) ==
    \A k \in 1..Len(QuestionKeys) :
        \E p \in MetadataPairs(metadata, photo_id) : p[1] = QuestionKeys[k]

\* The elements of a sequence.
Range(seq) == { seq[i] : i \in 1..Len(seq) }

\* The image files of the current scan_directory call.
CurFiles == DOMAIN cur.outcome

(* -------------------------------- C4 ----------------------------------- *)

\* C4: in every reachable catalog state, the states between the committed
\* writes of one file included, a photo is complete if and only if a
\* metadata entry is persisted for it for every inference answer key.
C4_CompleteIffAllAnswers ==
    \A i \in 1..Len(photos) :
        (photos[i].is_completed = 1) <=> HasAllAnswers(photos[i].id)

(* -------------------------------- C7 ----------------------------------- *)

\* C7: a call of scan_directory or scan_recursive with a path that does not
\* exist or is no directory returns the error result and leaves the catalog
\* as it was.
C7_InvalidTarget ==
    [][ (runs' = runs + 1 /\ ~IsDir(ret'.path))
            => (ret'.kind = "error" /\ catalog' = catalog) ]_vars

\* Both calls have returned the error result on a catalog that holds photos.
C7_InvalidAfterScan ==
    /\ ret.kind = "error" /\ ret.call = "scan_recursive" /\ ~IsDir(ret.path)
    /\ photos # <<>>

(* -------------------------------- C8 ----------------------------------- *)

\* C8: when reading a candidate's size or bytes raises, only that file is
\* given up: the call goes on (it does not end by the exception), the file
\* has no complete photo, and the summary is returned with no candidate
\* left unprocessed.
C8_IoFailureIsolated ==
    \A n \in CurFiles :
        cur.outcome[n] = "io_failed" =>
            /\ cur.status # "raised"
            /\ ~HasCompletePhoto(cur.dir, n)
            /\ cur.status = "returned" => \A m \in CurFiles : cur.outcome[m] # "pending"

(* -------------------------------- C9 ----------------------------------- *)

\* The inference path of file n has failed (the inference call raised, or a
\* write after it did) and its handler is over.
InferencePathFailed(n) ==
    /\ cur.outcome[n] \in {"infer_failed", "write_failed"}
    /\ ~(pc = "handler" /\ sd.filename = n)

\* C9: once the inference path of a candidate has failed, at whatever step,
\* the file has a photo, no photo of the file is complete, and the call has
\* gone on to the next candidate (it has not ended by an exception).
C9_FailureMarksIncomplete ==
    \A n \in CurFiles :
        InferencePathFailed(n) =>
            /\ cur.status # "raised"
            /\ HasPhoto(cur.dir, n)
            /\ ~HasCompletePhoto(cur.dir, n)

(* -------------------------------- C10 ---------------------------------- *)

\* Where the duplicate path stands between its write of the complete row
\* and the end of the copy.
CopySteps == {"copy_delete_metadata", "copy_metadata", "copy_tags"}

\* The target's row is complete while its metadata or its tags differ from
\* the donor's, in the catalog (rows, entries, labels).
CompleteButDiffers(rows, entries, labels, target, donor) ==
    /\ IsCompleteIn(rows, target)
    /\ \/ MetadataPairs(entries, target) # MetadataPairs(entries, donor)
       \/ TagLabels(labels, target) # TagLabels(labels, donor)

\* C10: when the copy step of the duplicate path raises, or the run stops
\* between the write of the complete flag and the end of the copy, the
\* candidate's photo is not left complete with metadata or tags that differ
\* from the donor's.
C10_DuplicateCopyAtomic ==
    [][ (pc \in CopySteps /\ pc' \in {"idle", "dup_done"} /\ faults' # faults)
            => ~CompleteButDiffers(photos', metadata', tags',
                                   sd.photo_id[1], sd.duplicate_photo[1].id) ]_vars

(* -------------------------------- C6 ----------------------------------- *)

\* The tags scan_directory derives from the q2 answer persisted for a photo.
TagsOfAnswer(photo_id) ==
    UNION { Range(KeywordTags(p[2])) : p \in { q \in MetadataPairs(metadata, photo_id) : q[1] = "q2" } }

\* The file has a complete photo that carries an answer for every question
\* and the tags of its keyword answer.
FullyCatalogued(dir, name) ==
    /\ HasPhoto(dir, name)
    /\ FilePhoto(dir, name).is_completed = 1
    /\ HasAllAnswers(FilePhoto(dir, name).id)
    /\ TagLabels(tags, FilePhoto(dir, name).id) = TagsOfAnswer(FilePhoto(dir, name).id)

\* C6: when a scan_directory run was interrupted and the next run on the
\* same directory returns with no inference call failed and no write
\* raised, every image file of the directory has a complete photo with its
\* full metadata and tags.
C6_SafeReentry ==
    ( /\ prev.status = "crashed" /\ prev.dir = cur.dir
      /\ cur.status = "returned" /\ ~cur.faulted
      /\ \A n \in CurFiles : cur.outcome[n] \in {"skipped", "processed", "dup"} )
        => \A n \in CurFiles : FullyCatalogued(cur.dir, n)

(* -------------------------------- C2 ----------------------------------- *)

\* C2: a candidate whose fingerprint is that of a complete photo is not
\* given to inference, and once its duplicate path is over its photo is
\* complete with the donor's set of metadata pairs and the donor's set of
\* tags.
C2_DuplicateReuse ==
    /\ \A n \in CurFiles :
          (sd.filename = n /\ cur.outcome[n] \in {"inferred", "infer_failed"})
              => sd.duplicate_photo = <<>>
    /\ \A n \in CurFiles :
          (sd.filename = n /\ pc = "loop" /\ cur.outcome[n] \in {"dup", "dup_copy_failed"})
              => /\ IsCompleteIn(photos, sd.photo_id[1])
                 /\ ~CompleteButDiffers(photos, metadata, tags,
                                        sd.photo_id[1], sd.duplicate_photo[1].id)

(* -------------------------------- C5 ----------------------------------- *)

\* A complete photo with the fingerprint of the file `name` of `dir` exists.
CompleteWithFingerprintOf(dir, name) ==
    \E i \in 1..Len(photos) :
        /\ photos[i].is_completed = 1
        /\ photos[i].filesize = FileSize(Entry(dir, name).content)
        /\ photos[i].md5 = Md5(Entry(dir, name).content)

\* This step takes file n from the unprocessed files and calls inference on
\* it (the call returns, or raises into the handler).
InferenceCalledOn(n) ==
    pc = "loop" /\ pc' \in {"inf_photo", "handler"} /\ sd'.filename = n

\* This step takes file n and finds it a duplicate.
FoundDuplicate(n) ==
    pc = "loop" /\ pc' = "dup_photo" /\ sd'.filename = n

SameBytes(dir, n, m) == Entry(dir, n).content = Entry(dir, m).content

\* C5: inference is called on a candidate only when no complete photo with
\* its size and digest exists at that moment; and when a file of the same
\* bytes was processed earlier in the same call, the candidate is found a
\* duplicate, of that file's photo or of an older photo of the same bytes.
C5_NeverReanalyzed ==
    [][ \A n \in CurFiles :
          /\ InferenceCalledOn(n) => ~CompleteWithFingerprintOf(cur.dir, n)
          /\ \A m \in CurFiles \ {n} :
                ( /\ pc = "loop" /\ pc' # "idle" /\ sd'.filename = n /\ sd' # sd
                  /\ SameBytes(cur.dir, n, m) /\ cur.outcome[m] = "processed" )
                    => /\ FoundDuplicate(n)
                       /\ sd'.duplicate_photo[1].id <= FilePhoto(cur.dir, m).id
                       /\ sd'.duplicate_photo[1].md5 = Md5(Entry(cur.dir, n).content) ]_vars

\* In a first call on a directory, one of two files of the same bytes was
\* given to inference and the other one reused its photo.
C5_SecondReusesFirst ==
    /\ prev.status = "none"
    /\ \E n, m \in CurFiles :
          /\ n # m /\ SameBytes(cur.dir, n, m)
          /\ cur.outcome[m] = "processed" /\ cur.outcome[n] = "dup"

(* -------------------------------- C1 ----------------------------------- *)

\* The summary accounts for every image as processed, skipped or duplicate.
AllAccounted(result) ==
    /\ result.kind = "summary"
    /\ result.processed + result.skipped + result.duplicates = result.total_images

AllSkipped(result) ==
    /\ result.kind = "summary"
    /\ result.skipped = result.total_images
    /\ result.processed = 0 /\ result.duplicates = 0

\* The call before the current one was on the same directory and returned.
SecondRun == prev.status = "returned" /\ prev.dir = cur.dir /\ cur.status # "none"

InferenceSucceeded(n) == cur.image_results[n] # <<>>

\* File n has a complete photo that carries the answers and the keyword
\* tags inference returned for it in the current call.
CompleteWithReturned(n) ==
    /\ HasPhoto(cur.dir, n)
    /\ FilePhoto(cur.dir, n).is_completed = 1
    /\ MetadataPairs(metadata, FilePhoto(cur.dir, n).id)
          = Range(MetadataItems(cur.image_results[n]))
    /\ TagLabels(tags, FilePhoto(cur.dir, n).id)
          = Range(KeywordTags(DictGet(cur.image_results[n], "q2")))

\* What C3 concludes of a call that has returned.
FailureIsolated ==
    /\ \A n \in CurFiles : InferenceSucceeded(n) => CompleteWithReturned(n)
    /\ \A n \in CurFiles :
          cur.outcome[n] = "infer_failed"
              => HasPhoto(cur.dir, n) /\ ~HasCompletePhoto(cur.dir, n)
    /\ cur.result.processed = Cardinality({n \in CurFiles : InferenceSucceeded(n)})

RECURSIVE Reachable(_)
Reachable(dir) ==
    {dir} \cup UNION { Reachable(e.path) : e \in { x \in disk[dir] : x.kind = "dir" } }

\* scan_recursive has ended of itself: it returned its results or an
\* exception left it (an interrupted process is neither).
WalkEnded == ret.call = "scan_recursive" /\ ret.kind \in {"summary", "raised"}

\* C11: when the scan of one directory fails inside scan_recursive, the
\* walk goes on: scan_directory is called for every directory reachable from
\* the root and scan_recursive returns the aggregate summary.
C11_WalkerFailureIsolated ==
    WalkEnded =>
        /\ ret.kind = "summary"
        /\ Range(ret.visited) = Reachable(ret.path)

(* ------------------------------- C12 ----------------------------------- *)

\* The sum of one count over the dicts scan_directory returned.
RECURSIVE SumOver(_, _)
SumOver(results, count) ==
    IF results = <<>> THEN 0
    ELSE count[Head(results)] + SumOver(Tail(results), count)

\* C12: the dict scan_recursive returns counts the directories reachable
\* from the root, and its total_images, processed and skipped are the sums of
\* the counts scan_directory returned for these directories.
C12_RecursiveAggregation ==
    (ret.call = "scan_recursive" /\ ret.kind = "summary") =>
        /\ ret.directories_scanned = Cardinality(Reachable(ret.path))
        /\ Len(ret.dir_results) = ret.directories_scanned
        /\ ret.total_images = SumOver(ret.dir_results, [r \in Range(ret.dir_results) |-> r.total_images])
        /\ ret.processed = SumOver(ret.dir_results, [r \in Range(ret.dir_results) |-> r.processed])
        /\ ret.skipped = SumOver(ret.dir_results, [r \in Range(ret.dir_results) |-> r.skipped])

\* A walk of several directories has returned, with files processed in it
\* and files skipped in it.
C12_WalkSummedUp ==
    /\ ret.call = "scan_recursive" /\ ret.kind = "summary"
    /\ ret.directories_scanned > 1
    /\ ret.skipped > 0
    /\ ret.total_images > ret.skipped
    /\ \E i \in 1..Len(ret.dir_results) : ret.dir_results[i].total_images < ret.total_images

(* ------------------------------- C13 ----------------------------------- *)

\* d is a subdirectory of p.
IsSubdirectory(d, p) == \E e \in disk[p] : e.kind = "dir" /\ e.path = d

\* C13: scan_recursive calls scan_directory exactly once for every directory
\* reachable from the root, and for a directory before its subdirectories.
C13_PreOrder ==
    WalkEnded =>
        /\ \A d \in Reachable(ret.path) :
              Cardinality({ i \in 1..Len(ret.visited) : ret.visited[i] = d }) = 1
        /\ \A i, j \in 1..Len(ret.visited) :
              IsSubdirectory(ret.visited[j], ret.visited[i]) => i < j

(* ------------------------------- C14 ----------------------------------- *)

\* In the call `call`, scan_directory has put the file in processed_files.
KnownCompleteIn(call, dir, name) ==
    /\ call.status = "running" /\ call.dir = dir
    /\ name \in DOMAIN call.outcome /\ call.outcome[name] = "skipped"

\* A step leaves the rows of a file, and the metadata and tags of these rows,
\* as they are.
FileFrame(dir, name) ==
    /\ PhotoRowsOf(photos', dir, name) = PhotoRowsOf(photos, dir, name)
    /\ \A r \in PhotoRowsOf(photos, dir, name) :
          /\ MetadataPairs(metadata', r.id) = MetadataPairs(metadata, r.id)
          /\ TagLabels(tags', r.id) = TagLabels(tags, r.id)

\* C14: no step of a scan_directory call, the partition included, writes
\* the photo, the metadata or the tags of a file the call found
\* known-complete.
C14_KnownCompleteFrame ==
    [][ \A dir \in DOMAIN disk : \A e \in disk[dir] :
          (KnownCompleteIn(cur, dir, e.name) \/ KnownCompleteIn(cur', dir, e.name))
              => FileFrame(dir, e.name) ]_vars

\* A call has skipped one file and reused its photo for another file of the
\* same bytes.
C14_SkippedAndReused ==
    /\ cur.status = "running"
    /\ \E n, m \in CurFiles :
          /\ cur.outcome[n] = "skipped" /\ cur.outcome[m] = "dup"
          /\ SameBytes(cur.dir, n, m)
          /\ MetadataPairs(metadata, FilePhoto(cur.dir, n).id) # {}
          /\ MetadataPairs(metadata, FilePhoto(cur.dir, m).id)
                = MetadataPairs(metadata, FilePhoto(cur.dir, n).id)

(* ------------------------------- C15 ----------------------------------- *)

\* The two spellings of a character of an extension.
Spellings(c) ==
    CASE c = "j" -> {"j", "J"} [] c = "p" -> {"p", "P"} [] c = "e" -> {"e", "E"}
      [] c = "g" -> {"g", "G"} [] c = "n" -> {"n", "N"} [] c = "i" -> {"i", "I"}
      [] c = "f" -> {"f", "F"} [] OTHER -> {c}

\* The name ends in .jpg, .jpeg, .png or .gif, in whatever case.
EndsInImageExtension(name) ==
    \E ext \in { <<".", "j", "p", "g">>, <<".", "j", "p", "e", "g">>,
                  <<".", "p", "n", "g">>, <<".", "g", "i", "f">> } :
        /\ Len(name) >= Len(ext)
        /\ \A i \in 1..Len(ext) : name[Len(name) - Len(ext) + i] \in Spellings(ext[i])

\* The entries of a directory whose names end in an image extension.
ImageEntries(dir) == { e.name : e \in { x \in disk[dir] : EndsInImageExtension(x.name) } }

\* C15: the entries scan_directory counts in total_images are the entries of
\* the directory whose lower-cased names end in .jpg, .jpeg, .png or .gif;
\* the file it fingerprints or passes to inference is one of them, and so is
\* the file of every photo row.
C15_ExtensionFilter ==
    /\ cur.status # "none" =>
          LET entries == ImageEntries(cur.dir)
          IN  /\ CurFiles = entries
              /\ cur.status = "returned" =>
                    cur.result.total_images = Cardinality(entries)
    /\ pc # "idle" /\ pc # "walk" =>
          LET entries == ImageEntries(sd.directory_path)
          IN  /\ sd.total_images = Cardinality(entries)
              /\ \A u \in sd.unprocessed : u.filename \in entries
              /\ sd.filename # <<>> => sd.filename \in entries
    /\ \A i \in 1..Len(photos) :
          /\ EndsInImageExtension(photos[i].filename)
          /\ \E dir \in DOMAIN disk :
                /\ photos[i].fullpath = JoinPath(dir, photos[i].filename)
                /\ \E e \in disk[dir] : e.name = photos[i].filename

\* A directory with a text file and an image whose extension is spelled in
\* upper case has been scanned: two images were counted and the upper-case
\* one has its photo.
C15_UpperCaseCounted ==
    /\ cur.status = "returned" /\ cur.dir = DirRoot
    /\ \E e \in disk[DirRoot] : e.name = NameN
    /\ cur.result.total_images = 2
    /\ NameB \in CurFiles /\ HasCompletePhoto(DirRoot, NameB)

(* ------------------------------- C16 ----------------------------------- *)

\* The files of the current call by what became of them: known-complete at
\* the partition, completed by an inference that returned, completed by
\* reuse, and failed (given up in the exception handler).
KnownCompleteFiles == { n \in CurFiles : cur.outcome[n] = "skipped" }

CompletedByInference ==
    { n \in CurFiles \ KnownCompleteFiles :
        /\ InferenceSucceeded(n)
        /\ HasPhoto(cur.dir, n) /\ FilePhoto(cur.dir, n).is_completed = 1 }

CompletedByReuse ==
    { n \in CurFiles \ KnownCompleteFiles :
        /\ cur.outcome[n] \in {"dup", "dup_copy_failed"}
        /\ HasPhoto(cur.dir, n) /\ FilePhoto(cur.dir, n).is_completed = 1 }

FailedFiles ==
    { n \in CurFiles : cur.outcome[n] \in {"infer_failed", "write_failed", "dump_failed"} }

\* C16: in the summary scan_directory returns, total_images counts the image
\* files directly in the directory, skipped the known-complete ones,
\* processed the candidates completed by an inference that returned,
\* duplicates those completed by reuse; these sets and the failed candidates
\* are disjoint and add up to total_images.
C16_SummaryAccounting ==
    cur.status = "returned" =>
        /\ cur.result.total_images = Cardinality(ImageEntries(cur.dir))
        /\ cur.result.skipped = Cardinality(KnownCompleteFiles)
        /\ cur.result.processed = Cardinality(CompletedByInference)
        /\ cur.result.duplicates = Cardinality(CompletedByReuse)
        /\ CompletedByInference \cap CompletedByReuse = {}
        /\ FailedFiles \cap (KnownCompleteFiles \cup CompletedByInference \cup CompletedByReuse) = {}
        /\ cur.result.processed + cur.result.skipped + cur.result.duplicates
              + Cardinality(FailedFiles) = cur.result.total_images

(* ------------------------------- C20 ----------------------------------- *)

\* main() (lines 63-87): the exit status of the process for what the call
\* returned.  The error dict gives 1 (line 79); an exception that leaves
\* the call leaves main() too, and the interpreter exits with 1.
ExitStatus(r) == IF r.kind = "summary" THEN 0 ELSE 1

\* Lines 81-85 are reached: the summary is printed.
SummaryPrinted(r) == r.kind = "summary"

\* The run has ended of itself, and if by an exception, then by one that
\* reading a file raised.
EndedOnFileFailure ==
    \/ ret.kind \in {"summary", "error"}
    \/ ret.kind = "raised" /\ \E n \in CurFiles : cur.outcome[n] = "io_failed"

\* C20: a run on a valid directory ends with the summary printed and exit
\* status 0 whatever fails for single files, and the exit status is
\* non-zero exactly when the directory is invalid.
C20_BatchAlwaysFinishes ==
    EndedOnFileFailure =>
        /\ IsDir(ret.path) => SummaryPrinted(ret)
        /\ ExitStatus(ret) # 0 <=> ~IsDir(ret.path)

(* ------------------------------- C17 ----------------------------------- *)

\* C17: a task that was running when a stop request was accepted takes no
\* further file from its list, whatever requests come later, and no step
\* of it or of another task turns a photo that is complete into an
\* incomplete one.
C17_CooperativeCancellation ==
    [][ \A t \in Threads :
          tasks[t].stop_requested =>
              /\ ~(tasks[t].pc = "loop" /\ tasks'[t].pc = "file")
              /\ \A i \in 1..Len(photos) :
                    photos[i].is_completed = 1 => IsCompleteIn(photos', photos[i].id) ]_vars

(* ------------------------------- C18 ----------------------------------- *)

\* The tasks that are executing: started by start_scan and not yet ended.
Executing == { t \in Threads : tasks[t].pc \notin {"none", "done", "failed"} }

\* C18: at most one background scan task is executing at any time, and at
\* most one is inside the processing of a file (writing to the catalog,
\* calling inference).
C18_SingleWriter ==
    /\ Cardinality(Executing) <= 1
    /\ Cardinality({ t \in Threads :
          tasks[t].pc \in {"file", "insert", "thumbnail"} }) <= 1

(* ------------------------------- C19 ----------------------------------- *)

\* The image files a task on folder_path collects.
WebFiles(path) == Range(ImagesOfWalk(WalkOrder(path)))

\* C19: the catalog a background scan leaves does not depend on what
\* becomes of its progress updates.  A scan that runs alone and is not
\* stopped leaves a photo row for every image file under its folder when all
\* its updates are delivered; so it does when some are lost or fail.
C19_ProgressNonInterference ==
    \A t \in Threads :
        ( /\ tasks[t].pc = "done" /\ ~tasks[t].stop_requested
          /\ \A s \in Threads \ {t} : tasks[s].pc = "none" )
            => /\ FolderRows(tasks[t].folder_path) # <<>>
               /\ \A f \in WebFiles(tasks[t].folder_path) : HasPhoto(f.dir, f.filename)

(* ------------------------------- C21 ----------------------------------- *)

\* C21: the catalog holds at most one photo row per (folder, filename), and
\* the folder id of every photo row is the id of exactly one folder row.
C21_PhotoIdentity ==
    /\ \A i, j \in 1..Len(photos) :
          (photos[i].folderid = photos[j].folderid /\ photos[i].filename = photos[j].filename)
              => i = j
    /\ \A i \in 1..Len(photos) :
          Cardinality({ k \in 1..Len(folders) : folders[k].id = photos[i].folderid }) = 1

(* ------------------------------- C27 ----------------------------------- *)

\* The rows of a folders table that have this path.
FolderRowsIn(table, path) == { table[i] : i \in { j \in 1..Len(table) : table[j].path = path } }

\* The step is the add_folder call of scan_directory (line 97), committed.
AddFolderCalled == sd.directory_path = "" /\ sd'.directory_path # ""

\* C27: after every step there is exactly one folder row for every path that
\* has one, and no step changes or removes a folder row; the id add_folder
\* returns to scan_directory is the id of the row of the path, and it is the
\* id the path had before the call when it had a row.
C27_FolderUniqueness ==
    [][ /\ \A i \in 1..Len(folders') :
              Cardinality(FolderRowsIn(folders', folders'[i].path)) = 1
        /\ Len(folders') >= Len(folders)
        /\ \A i \in 1..Len(folders) : folders'[i] = folders[i]
        /\ AddFolderCalled =>
              /\ sd'.folder_id \in Nat \ {0}
              /\ \E r \in FolderRowsIn(folders', sd'.directory_path) : r.id = sd'.folder_id
              /\ \A r \in FolderRowsIn(folders, sd'.directory_path) : r.id = sd'.folder_id ]_vars

\* scan_directory runs on a directory for the second time, and add_folder
\* has given it the id of the one row the first call made.
C27_RescanSameFolder ==
    /\ prev.dir = cur.dir /\ prev.status # "none"
    /\ cur.status = "running" /\ sd.directory_path = cur.dir
    /\ FolderRowsIn(folders, cur.dir) = { [id |-> sd.folder_id, path |-> cur.dir] }
    /\ Len(folders) = 1

(* ------------------------------- C28 ----------------------------------- *)

\* The step takes a candidate from the unprocessed files and looks its
\* fingerprint up (lines 144-161).
CandidateTaken == pc = "loop" /\ pc' \in {"dup_photo", "handler", "inf_photo"}

\* The complete rows of the catalog that have the size and the digest of
\* the file's bytes.
CompleteMatches(dir, name) ==
    { photos[i] : i \in { j \in 1..Len(photos) :
          /\ photos[j].is_completed = 1
          /\ photos[j].filesize = FileSize(Entry(dir, name).content)
          /\ photos[j].md5 = Md5(Entry(dir, name).content) } }

\* C28: when scan_directory takes a candidate, the photo the lookup gives is
\* a row that is complete in the catalog of that moment and has the
\* candidate's size and digest, and there is none when no complete row has
\* both; the duplicate path is taken only with such a row, and only when it
\* is not the candidate's own existing row.
C28_DonorEligibility ==
    [][ CandidateTaken =>
          LET matches == CompleteMatches(sd.directory_path, sd'.filename)
          IN /\ sd'.duplicate_photo # <<>> => sd'.duplicate_photo[1] \in matches
             /\ matches = {} => sd'.duplicate_photo = <<>>
             /\ pc' = "dup_photo" =>
                   /\ sd'.duplicate_photo # <<>>
                   /\ <<sd'.duplicate_photo[1].id>> # sd'.existing_photo ]_vars

\* The duplicate path is taken for a candidate that has a row of its own,
\* left incomplete by an earlier run, with another row as the donor.
C28_DonorForExistingRow ==
    /\ pc = "dup_photo"
    /\ sd.existing_photo # <<>>
    /\ ~IsCompleteIn(photos, sd.existing_photo[1])
    /\ sd.duplicate_photo[1] \in CompleteMatches(sd.directory_path, sd.filename)
    /\ sd.duplicate_photo[1].id # sd.existing_photo[1]

(* ------------------------------- C29 ----------------------------------- *)

\* The write of the duplicate path commits (lines 166-188).
DuplicateWritten == pc = "dup_photo" /\ pc' = "copy_delete_metadata"

RowsWithId(table, id) == SelectSeq(table, LAMBDA r : r.id = id)

\* C29: when the duplicate path writes the candidate's row, the row is
\* complete, its filesize and md5 are the size and the digest of the
\* candidate's bytes and those of the donor, and its width, height, month
\* and year are the donor's; an existing row keeps its id and its place and
\* no row is added, and without one exactly one row is added.
C29_DuplicateColumnCopy ==
    [][ DuplicateWritten =>
          LET donor == sd.duplicate_photo[1]
              content == Entry(sd.directory_path, sd.filename).content
              rows == RowsWithId(photos', sd'.photo_id[1])
          IN /\ Len(rows) = 1
             /\ rows[1].is_completed = 1
             /\ rows[1].folderid = sd.folder_id /\ rows[1].filename = sd.filename
             /\ rows[1].filesize = FileSize(content) /\ rows[1].md5 = Md5(content)
             /\ rows[1].filesize = donor.filesize /\ rows[1].md5 = donor.md5
             /\ rows[1].width = donor.width /\ rows[1].height = donor.height
             /\ rows[1].month = donor.month /\ rows[1].year = donor.year
             /\ rows[1].width # "None" /\ rows[1].month # "None"
             /\ IF sd.existing_photo # <<>>
                THEN /\ sd'.photo_id = sd.existing_photo
                     /\ Len(photos') = Len(photos)
                     /\ \A i \in 1..Len(photos) :
                           IF photos[i].id = sd.existing_photo[1]
                           THEN photos'[i] = rows[1] /\ photos[i].is_completed = 0
                           ELSE photos'[i] = photos[i]
                ELSE /\ photos' = Append(photos, rows[1])
                     /\ RowsWithId(photos, rows[1].id) = <<>> ]_vars

\* An incomplete row left by an earlier run has been updated by the
\* duplicate path: it is complete now and carries the donor's columns.
C29_ExistingRowUpdated ==
    /\ pc = "copy_delete_metadata"
    /\ sd.existing_photo # <<>> /\ sd.photo_id = sd.existing_photo
    /\ \E i \in 1..Len(photos) :
          /\ photos[i].id = sd.photo_id[1]
          /\ photos[i].is_completed = 1
          /\ photos[i].width = sd.duplicate_photo[1].width
          /\ photos[i].year = sd.duplicate_photo[1].year
          /\ photos[i].md5 = sd.md5_value

(* ------------------------------- C24 ----------------------------------- *)

\* The tag rows of a photo, in insertion order.
PhotoTagRows(photo_id) == SelectSeq(tags, LAMBDA r : r.photo_id = photo_id)

\* C24: when the inference path has written the tags of a candidate (the
\* loop of lines 242-247 is over), the tag rows of its photo carry the
\* non-empty trimmed tokens of the keyword answer split on commas, and
\* nothing else: no empty label, no label that begins or ends with a blank,
\* and no label on two rows.
C24_TagDerivation ==
    pc = "inf_done" =>
        LET rows == PhotoTagRows(sd.photo_id[1])
            answer == DictGet(sd.image_results, "q2")
        IN /\ { rows[i].tag : i \in 1..Len(rows) } =
                  { Strip(t) : t \in Range(SplitComma(answer)) } \ {<<>>}
           /\ \A i \in 1..Len(rows) :
                 /\ rows[i].tag # <<>>
                 /\ Head(rows[i].tag) # " " /\ rows[i].tag[Len(rows[i].tag)] # " "
           /\ \A i, j \in 1..Len(rows) : rows[i].tag = rows[j].tag => i = j

(* ------------------------------- C26 ----------------------------------- *)

\* Month and year of the capture date the file should get: those of the
\* EXIF original-capture timestamp of its bytes when the tag is there and
\* parses, those of the modification time otherwise.
CaptureDate(e) ==
    LET exif == OpenImage(e.content).exif
    IN IF exif # <<>> /\ StrptimeParses(exif[1]) THEN Strptime(exif[1])
       ELSE MtimeDate(e.mtime)

\* C26: when the inference path has completed a candidate, month and year
\* of its photo row are not null, and they are the month and the year of
\* the EXIF original-capture timestamp of the file when the tag is present
\* and parses, and of the file's modification time otherwise.
C26_CaptureDate ==
    pc = "inf_done" =>
        LET row == RowsWithId(photos, sd.photo_id[1])[1]
            date == CaptureDate(Entry(sd.directory_path, sd.filename))
        IN /\ row.month # "None" /\ row.year # "None"
           /\ row.month = Numeral(date[1])
           /\ row.year = Numeral(date[2])

(* ------------------------------- C30 ----------------------------------- *)

\* Task t leaves lines 208-209 for a file whose photo row is complete, and
\* the photo has no stored thumbnail image afterwards: create_thumbnail
\* gave None, or a call raised.
ThumbnailFailed(t) ==
    /\ tasks[t].pc = "thumbnail" /\ tasks'[t].pc = "loop"
    /\ IsCompleteIn(photos, tasks[t].photo_id[1])
    /\ \A i \in 1..Len(thumbnails') :
          thumbnails'[i].photo_id = tasks[t].photo_id[1] => thumbnails'[i].thumbnail = "None"

\* C30: when the thumbnail of a file whose photo, metadata and tags the
\* background scan has written cannot be made or stored, the photo stays
\* complete and no photo row is added.
C30_ThumbnailIndependence ==
    [][ \A t \in Threads :
          ThumbnailFailed(t) =>
              /\ IsCompleteIn(photos', tasks[t].photo_id[1])
              /\ Len(photos') = Len(photos) ]_vars

(* ------------------------------- C23 ----------------------------------- *)

\* The keys of the metadata rows of a photo, in insertion order.
MetadataKeys(photo_id) ==
    LET rows == PhotoMetadata(photo_id) IN [i \in 1..Len(rows) |-> rows[i].key]

\* No background scan is executing.
ScansOver == \A t \in Threads : tasks[t].pc \in {"none", "done", "failed"}

\* C23: once the background scans are over, the metadata of every photo
\* they completed by inference is one entry per question key and nothing
\* else: no key twice, no entry of an earlier processing, no photo column
\* among the keys.
C23_MetadataReplaced ==
    ScansOver =>
        \A i \in 1..Len(photos) :
            photos[i].is_completed = 1 =>
                LET keys == MetadataKeys(photos[i].id)
                IN /\ Range(keys) = Range(QuestionKeys)
                   /\ Len(keys) = Len(QuestionKeys)

(* ------------------------------- C22 ----------------------------------- *)

\* The photo ids the rows of the metadata, tags and photo_preview tables
\* refer to.
OwnerIds(meta, tagrows, previews) ==
    { meta[i].photo_id : i \in 1..Len(meta) }
        \cup { tagrows[i].photo_id : i \in 1..Len(tagrows) }
        \cup { previews[i].photo_id : i \in 1..Len(previews) }

\* C22: a delete_photo(p) leaves no metadata, tag or thumbnail row of p, a
\* delete_folder(f) leaves no photo of f and no metadata, tag or thumbnail
\* row of a photo that was in f, and after every step every metadata, tag
\* and thumbnail row refers to a photo row and every photo row to a folder
\* row.
C22_CascadeOwnership ==
    [][ /\ \A p \in 1..photoSeq :
              DeletePhoto(p) => p \notin OwnerIds(metadata', tags', thumbnails')
        /\ \A f \in 1..folderSeq :
              DeleteFolder(f) =>
                  /\ \A i \in 1..Len(photos') : photos'[i].folderid # f
                  /\ \A i \in 1..Len(photos) :
                        photos[i].folderid = f =>
                            photos[i].id \notin OwnerIds(metadata', tags', thumbnails')
        /\ OwnerIds(metadata', tags', thumbnails') \subseteq { photos'[i].id : i \in 1..Len(photos') }
        /\ \A i \in 1..Len(photos') :
              \E k \in 1..Len(folders') : folders'[k].id = photos'[i].folderid ]_vars

(* ------------------------------- C25 ----------------------------------- *)

\* The rows of the photo_preview table of one photo.
ThumbnailsOf(photo_id) == SelectSeq(thumbnails, LAMBDA r : r.photo_id = photo_id)

\* C25: no photo id has more than one row in the photo_preview table,
\* whatever add_thumbnail and delete_thumbnail calls and background scans
\* were made.
C25_OneThumbnail ==
    \A i \in 1..Len(thumbnails) : Len(ThumbnailsOf(thumbnails[i].photo_id)) = 1

\* An add_thumbnail for a photo a background scan had made the thumbnail of
\* was refused, and the photo has its one thumbnail.
C25_SecondAddRefused ==
    /\ api.refused
    /\ \E i \in 1..Len(photos) :
          photos[i].is_completed = 1 /\ Len(ThumbnailsOf(photos[i].id)) = 1

(* ------------------------ C38: model loading order --------------------- *)

\* Lines 26-31: a step calls load_model when it goes through
\* _ensure_model_loaded with model_loaded false.
LoadModelCalled == ~model_loaded /\ model_loaded'

\* Lines 195-202: a step that calls process_single_image.
ProcessSingleImageCalled ==
    \E u \in sd.unprocessed :
        InferenceRaises(u) \/ \E ans \in Answers : InferenceReturns(u, ans)

\* C38: within one BatchScanner (from its construction to the end of the
\* process), once load_model has been called no later step calls it again;
\* every step that calls process_single_image starts with the model loaded;
\* load_model is called only by a step that begins a scan_directory for a
\* directory or a scan_recursive; and a scan_directory call on an invalid
\* directory does not load the model.
C38_ModelLoadingOrder ==
    [][ /\ (model_loaded /\ ~Crash) => model_loaded'
        /\ ProcessSingleImageCalled => model_loaded
        /\ LoadModelCalled => pc = "idle" \/ pc = "walk"
        /\ (\E path \in Paths : ScanDirectoryInvalid(path)) => UNCHANGED model_loaded
      ]_vars

\* The first call on a BatchScanner was a scan_directory on an invalid
\* directory and has returned its error.
C38_InvalidCallReturned ==
    /\ runs = 1 /\ pc = "idle"
    /\ ret.call = "scan_directory" /\ ret.kind = "error"
    /\ ~model_loaded

(* -------------------- C34: retry of incomplete photos ------------------ *)

\* Lines 118-130 have run: scan_directory has parted the image files.
Partitioned == pc \in {"idle", "walk"} /\ pc' = "loop"

\* Lines 196 and 252: the loop body for the file at hand ends without an
\* exception, by reuse or by inference.
FileSucceeds ==
    \/ pc = "dup_done" /\ pc' = "loop"
    \/ pc = "inf_done" /\ pc' = "loop"

\* The ids and paths of the photo rows, in rowid order.
RowKeys(table) == [i \in 1..Len(table) |-> <<table[i].id, table[i].fullpath>>]

\* C34: when scan_directory parts the files of a directory, every image file
\* that has a photo row marked not completed is put with the unprocessed
\* files, with that row as its existing photo; while such a file is
\* processed no photo row is added or removed and no row changes its id;
\* and when its loop body ends without an exception, the one row with the
\* existing id is the file's and is complete.
C34_RetryOfIncomplete ==
    [][ /\ Partitioned =>
              \A n \in ImageFiles(cur'.dir) :
                  \A r \in PhotoRowsOf(photos, cur'.dir, n) :
                      r.is_completed = 0 =>
                          [filename |-> n, existing_photo |-> <<r.id>>] \in sd'.unprocessed
        /\ (pc \notin {"idle", "walk", "loop"} /\ sd.existing_photo # <<>>) =>
              RowKeys(photos') = RowKeys(photos)
        /\ (FileSucceeds /\ sd.existing_photo # <<>>) =>
              LET rows == RowsWithId(photos', sd.existing_photo[1])
              IN /\ Len(rows) = 1
                 /\ rows[1].fullpath = JoinPath(sd.directory_path, sd.filename)
                 /\ rows[1].is_completed = 1
                 /\ sd.photo_id = sd.existing_photo
      ]_vars

\* The second scan of a directory has completed by inference a file that the
\* first scan left with a photo not completed: the file has one row.
C34_IncompleteRowCompleted ==
    /\ runs = 2 /\ pc = "loop"
    /\ prev.status = "returned" /\ prev.dir = cur.dir
    /\ \E n \in CurFiles :
          /\ cur.outcome[n] = "processed"
          /\ n \notin cur.complete_before
          /\ Cardinality(PhotoRowsOf(photos, cur.dir, n)) = 1
          /\ FilePhoto(cur.dir, n).is_completed = 1

(* -------------------- C37: repository transactions --------------------- *)

StartRejected == scan_running

StopRejected == ~scan_running

\* C33: scan_running is set whenever a background task is executing and no
\* stop was requested for it, and clear whenever no task is executing; a
\* start request is turned down exactly when a task is executing, and a
\* stop request exactly when none is.
C33_StatusAccuracy ==
    /\ \A t \in Executing : ~tasks[t].stop_requested => scan_running
    /\ Executing = {} => ~scan_running
    /\ StartRejected <=> Executing # {}
    /\ StopRejected <=> Executing = {}

(* ---------------------- C32: the scan terminates ----------------------- *)

\* The finally clause of the task (lines 230-233) has run: scan_running was
\* cleared and scan_complete sent.
ScanCompleteSent(t) == tasks[t].pc = "done"

\* C32: every thread start_scan has started goes on to its finally clause,
\* which clears scan_running and sends scan_complete.
C32_ScanTerminates ==
    \A t \in Threads :
        (tasks[t].pc = "spawned") ~> (ScanCompleteSent(t) /\ ~scan_running)

(* --------------------- C35: bulk delete accounting --------------------- *)

\* No row of the four tables belongs to the photo.
NoRowLeft(photo_id) ==
    /\ \A i \in 1..Len(photos) : photos[i].id # photo_id
    /\ \A i \in 1..Len(metadata) : metadata[i].photo_id # photo_id
    /\ \A i \in 1..Len(tags) : tags[i].photo_id # photo_id
    /\ \A i \in 1..Len(thumbnails) : thumbnails[i].photo_id # photo_id

\* The step of the handler in which os.remove raised, and the one in which
\* an id was found in no row.
RemoveFailed == delete_photos'.unremoved # delete_photos.unremoved

IdUnknown == delete_photos'.unknown # delete_photos.unknown

\* C35: when os.remove raises for a photo the handler leaves the four tables
\* as they are and counts the photo in failed; an id without a row changes
\* neither count; deleted + failed never exceeds total; and when the
\* response is sent no photo counted in deleted has a row left in photos,
\* metadata, tags or photo_preview.
C35_BulkDeleteAccounting ==
    [][ /\ RemoveFailed =>
              /\ UNCHANGED <<photos, metadata, tags, thumbnails>>
              /\ delete_photos'.failed_count = delete_photos.failed_count + 1
              /\ delete_photos'.deleted_count = delete_photos.deleted_count
        /\ IdUnknown =>
              /\ delete_photos'.failed_count = delete_photos.failed_count
              /\ delete_photos'.deleted_count = delete_photos.deleted_count
        /\ delete_photos'.deleted_count + delete_photos'.failed_count <= delete_photos'.total
        /\ DeleteReturn => \A photo_id \in delete_photos.deleted : NoRowLeft(photo_id)
      ]_vars

(* --------------------- C36: pagination partitions ---------------------- *)

\* The least k with k * d >= n.
Ceiling(n, d) == CHOOSE k \in 0..n : k * d >= n /\ \A j \in 0..(k - 1) : j * d < n

\* The ids of the photos on a page of a folder, as the handler gives them.
PageIds(folder_id, page) ==
    LET response == PhotosResponse(folder_id, page)
    IN [i \in 1..Len(response.photos) |-> response.photos[i].id]

\* C36: for every folder, total_pages is the ceiling of the number of its
\* photos over the page size; the pages 1..total_pages hold at most a page
\* size of photos each, no photo twice and no photo on two pages, and
\* together exactly the photos of the folder; a page beyond total_pages is
\* empty; and the response the handler gave for a page is that page.
C36_PaginationPartitions ==
    /\ \A folder_id \in 1..folderSeq :
          LET ids == { photos[i].id : i \in { j \in 1..Len(photos) : photos[j].folderid = folder_id } }
              total_pages == PhotosResponse(folder_id, 1).total_pages
              pages == [p \in Pages |-> PageIds(folder_id, p)]
              sets == [p \in Pages |-> Range(pages[p])]
          IN /\ total_pages = Ceiling(Cardinality(ids), PerPage)
             /\ \A p \in 1..total_pages :
                   /\ Len(pages[p]) <= PerPage
                   /\ Cardinality(sets[p]) = Len(pages[p])
                   /\ \A q \in 1..total_pages : p # q => sets[p] \cap sets[q] = {}
             /\ UNION { sets[p] : p \in 1..total_pages } = ids
             /\ \A p \in Pages : p > total_pages => pages[p] = <<>>
    /\ api.name = "get_photos_by_folder" =>
          \A i \in 1..Len(api.response.photos) :
              \E r \in 1..Len(photos) :
                  /\ photos[r].id = api.response.photos[i].id
                  /\ photos[r].folderid = api.response.folder_id

\* The last page of a folder was asked for; it is the second page and is
\* not full, and two photos of the folder have the same filename.
C36_LastPageShort ==
    /\ api.name = "get_photos_by_folder"
    /\ api.response.page = 2 /\ api.response.total_pages = 2
    /\ Len(api.response.photos) = 1
    /\ api.response.total_photos = PhotosCountByFolder(api.response.folder_id)
    /\ \E i, j \in 1..Len(photos) :
          /\ i # j /\ photos[i].filename = photos[j].filename
          /\ photos[i].folderid = api.response.folder_id
          /\ photos[j].folderid = api.response.folder_id

(* ---------------- C31: the web task and scan_directory ------------------ *)

\* The complete rows, other than the file's own row, that have the size and
\* the digest of the file's bytes: with one of them scan_directory takes
\* the duplicate path (batch_scanner.py 144-161) and does not call
\* process_single_image.
DonorsFor(f) ==
    { row \in CompleteMatches(f.dir, f.filename) :
          f.existing_photo = <<>> \/ row.id # f.existing_photo[1] }

\* The task t calls process_single_image for its current file and the call
\* returns.
TaskInfers(t) == \E ans \in Answers : TaskProcessImage(t, ans)

\* C31: background_scan_task calls inference on the files scan_directory
\* calls it on: never on a file for which the catalog holds a complete
\* photo, of another row, with the same size and digest.
C31_ReconcilerEquivalence ==
    [][ \A t \in Threads : TaskInfers(t) => DonorsFor(tasks[t].current[1]) = {} ]_vars

====
